---- MODULE Spec2Model ----
(***************************************************************************)
(* RozgarAI backend (varunbantia/smartchatbotbackend).                     *)
(*                                                                         *)
(* The server is a set of Express handlers.  A handler runs synchronously  *)
(* up to its next await; every await of an external service (the chat      *)
(* completions API, Firestore, the job-search API, Speech-to-Text,         *)
(* Document AI) is a point where other requests may run.  One action of    *)
(* this module is one such synchronous stretch: it consumes the answer of  *)
(* the awaited service (drawn with \E from the answers that service can    *)
(* give) and runs the code up to the next await or to the response.        *)
(*                                                                         *)
(* req[r] is the request served in slot r; the other variables are the     *)
(* state outside the handlers: the module-level bindings, the heap arrays  *)
(* of the /chat handler, the Firestore collections the handlers write and  *)
(* the upload directory.                                                   *)
(***************************************************************************)
EXTENDS Integers, Sequences, FiniteSets, TLC

VARIABLES req, mod, heap, savedJobs, userStats, companyLogos, files

vars == <<req, mod, heap, savedJobs, userStats, companyLogos, files>>

(***************************************************************************)
(* JavaScript values.  Strings stand for themselves; the two tokens below  *)
(* stand for a missing value and for a value that is not a string.         *)
(***************************************************************************)
Undef == "<undefined>"
NotAString == "<number 42>"
Blank == "   "

\* !x for the values used here: undefined and the empty string are falsy.
Falsy(x) == x \in {Undef, ""}

\* A mutant: no type check.
AnythingIsString(x) == TRUE

\* typeof x === "string"
IsString(x) == x \notin {Undef, NotAString}

\* x.trim() === "" for a string x.
TrimsToEmpty(x) == x \in {"", Blank}

\* A message text of an error or of a response: a sequence of parts, so that
\* a text built from the message of a caught error keeps that message.
Text(s) == <<s>>

Slots == {"r1", "r2"}

Uids == {"u1", "u2"}

(***************************************************************************)
(* Responses.  status 0: nothing has been sent.                            *)
(***************************************************************************)
NoResp == [status |-> 0, kind |-> "none", body |-> [none |-> TRUE]]

JsonError(code, text) == [status |-> code, kind |-> "json", body |-> [error |-> text]]

Json(code, b) == [status |-> code, kind |-> "json", body |-> b]

PlainText(code, text) == [status |-> code, kind |-> "text", body |-> [text |-> text]]

IdleReq == [route |-> "none", pc |-> "idle", in |-> [none |-> TRUE],
            loc |-> [none |-> TRUE], log |-> <<>>, resp |-> NoResp]

\* The request in slot r ends with response rs.
Respond(r, rs) == [req[r] EXCEPT !.pc = "done", !.resp = rs]

(***************************************************************************)
(* Module initialization of the final server.js: Firebase must initialize  *)
(* (or the process exits); the Speech-to-Text and Document AI clients stay *)
(* null when their initialization throws.                                  *)
(***************************************************************************)
ToolNames == {"find_jobs", "get_user_info"}

ModuleInit(stt, docai) ==
    [AI_MODEL |-> "gpt-3.5-turbo", sttClient |-> stt, docAIClient |-> docai,
     db |-> "firestore", tools |-> ToolNames]

\* The users collection: the handlers of the final server.js only read it.
ProfileIds == Uids \cup {"u3"}

Profiles ==
    [u \in ProfileIds |->
        IF u = "u1"
        THEN [exists |-> TRUE, name |-> "Asha", skills |-> "Go, SQL",
              location |-> "Pune", jobRole |-> "Backend Developer"]
        ELSE IF u = "u3"
        THEN [exists |-> TRUE, name |-> "Ravi", skills |-> "Go, SQL",
              location |-> "Pune", jobRole |-> Undef]
        ELSE [exists |-> FALSE, name |-> Undef, skills |-> Undef,
              location |-> Undef, jobRole |-> Undef]]

Null == [exists |-> FALSE, name |-> Undef, skills |-> Undef,
         location |-> Undef, jobRole |-> Undef]

\* fetchUserPreferences(uid) once its Firestore read has answered: the
\* document's data, or null when it does not exist or the read failed.
fetchUserPreferences(uid, readOk) ==
    IF Falsy(uid) THEN Null
    ELSE IF readOk /\ uid \in ProfileIds /\ Profiles[uid].exists THEN Profiles[uid]
    ELSE Null

Init ==
    /\ req = [r \in Slots |-> IdleReq]
    /\ mod \in {ModuleInit(s, d) : s \in {"client", "null"}, d \in {"client", "null"}}
    /\ heap = [r \in Slots |-> <<>>]
    /\ savedJobs = [docs |-> {}, acked |-> {}]
    /\ userStats = [u \in Uids |-> [exists |-> FALSE, data |-> [none |-> TRUE]]]
    /\ companyLogos = [docs |-> {}, writes |-> {}, dropped |-> {}]
    /\ files = {}

(***************************************************************************)
(* Helpers of the final server.js.                                         *)
(***************************************************************************)

\* detectLanguageSimple: the script of the message decides before franc does.
detectLanguageSimple(message) ==
    IF Falsy(message) \/ ~IsString(message) \/ TrimsToEmpty(message) THEN "English"
    ELSE IF message = "naukri chahiye (Devanagari)" THEN "Hindi"
    ELSE IF message = "naukri chahidi (Gurmukhi)" THEN "Punjabi"
    ELSE "English"

\* What findJobs returns, as the JSON text of the list: the empty list without
\* a request when the API key is unset or the query is missing or blank, the
\* empty list when the request throws or brings no data, else the jobs.
NoJobs == <<>>

findJobsResult(keyLoaded, query, api) ==
    IF ~keyLoaded THEN NoJobs
    ELSE IF Falsy(query) \/ TrimsToEmpty(query) THEN NoJobs
    ELSE IF api = "data" THEN <<"job_A", "job_B">>
    ELSE NoJobs

\* Whether findJobs reaches the job-search API at all.
findJobsCallsApi(keyLoaded, query) ==
    keyLoaded /\ ~Falsy(query) /\ ~TrimsToEmpty(query)

ApiOutcomes == {"data", "nodata", "throw"}

(***************************************************************************)
(* POST /chat of the final server.js.                                      *)
(***************************************************************************)
MaxToolCalls == 2

\* The same bound where requests run concurrently.
MaxConcToolCalls == 1

\* History items a client can send.
HistoryItem(message, text, type, role, isUser) ==
    [null |-> FALSE, message |-> message, text |-> text, type |-> type,
     role |-> role, isUser |-> isUser]

NullItem == [null |-> TRUE, message |-> Undef, text |-> Undef, type |-> Undef,
             role |-> Undef, isUser |-> Undef]

Histories ==
    { [isArray |-> FALSE, items |-> <<>>],
      [isArray |-> TRUE,
       items |-> << HistoryItem("earlier question", Undef, "0", Undef, Undef),
                    HistoryItem("", "", "1", Undef, Undef),
                    NullItem,
                    HistoryItem(Undef, "earlier answer", Undef, Undef, "false") >>] }

\* The histories that are arrays.
ArrayHistories == {h \in Histories : h.isArray}

ChatMessages == {"find me a job", Blank, Undef, NotAString}

ChatUids == {"u1", Undef}

\* (Array.isArray(history) ? history : []).filter(...).map(...)
transformedHistory(history) ==
    LET items == IF history.isArray THEN history.items ELSE <<>>
        keep(m) == ~m.null /\ (~Falsy(m.message) \/ ~Falsy(m.text))
        kept == SelectSeq(items, keep)
        content(m) == IF ~Falsy(m.message) THEN m.message
                      ELSE IF ~Falsy(m.text) THEN m.text ELSE ""
        isAssistant(m) == m.type = "1" \/ m.role = "assistant" \/ m.isUser = "false"
    IN [i \in 1..Len(kept) |->
          [role |-> IF isAssistant(kept[i]) THEN "assistant" ELSE "user",
           content |-> Text(content(kept[i]))]]

systemPrompt(detectedLanguage) == <<"You are RozgarAI ...", detectedLanguage>>

\* A mutant: the current user message placed before the history.
InitialMessagesUserFirst(in) ==
    <<[role |-> "system", content |-> systemPrompt(detectLanguageSimple(in.message))]>>
    \o <<[role |-> "user", content |-> Text(in.message)]>>
    \o transformedHistory(in.history)

\* const messages = [system, ...transformedHistory, user]
InitialMessages(in) ==
    <<[role |-> "system", content |-> systemPrompt(detectLanguageSimple(in.message))]>>
    \o transformedHistory(in.history)
    \o <<[role |-> "user", content |-> Text(in.message)]>>

\* Mutant: one module-level messages array for all requests.
SharedMessagesArray(r) == "r1"

\* The array the handler's `const messages` names: a fresh one per request.
NewMessagesArray(r) == r

\* The tool_calls the model can put in its reply.
ToolCallKinds ==
    { [name |-> "find_jobs", arguments |-> "{\"query\":\"java jobs\"}"],
      [name |-> "find_jobs", arguments |-> "not json"],
      [name |-> "get_user_info", arguments |-> "{\"uid\":\"u2\"}"],
      [name |-> "delete_account", arguments |-> Undef] }

CallId(i) == IF i = 1 THEN "call_1" ELSE IF i = 2 THEN "call_2"
             ELSE IF i = 3 THEN "call_3" ELSE "call_n"

ToolCallLists(max) ==
    UNION { { [i \in 1..n |-> [id |-> CallId(i), name |-> f[i].name,
                               arguments |-> f[i].arguments]]
              : f \in [1..n -> ToolCallKinds] } : n \in 0..max }

\* JSON.parse(toolCall.function.arguments || "{}"), {} when it throws.
ParseArgs(raw) ==
    IF raw = "{\"query\":\"java jobs\"}" THEN [query |-> "java jobs", uid |-> Undef]
    ELSE IF raw = "{\"uid\":\"u2\"}" THEN [query |-> Undef, uid |-> "u2"]
    ELSE [query |-> Undef, uid |-> Undef]

\* A mutant: no result for an unknown function.
UnknownFunctionNull == <<"null">>

\* toolResult = { error: "Unknown function requested." }
UnknownFunctionResult == <<"error", "Unknown function requested.">>

ProfileJson(p) == IF p.exists THEN <<"profile", p.name>> ELSE <<"null">>

ToolMessage(toolCall, toolResult) ==
    [role |-> "tool", tool_call_id |-> toolCall.id, name |-> toolCall.name,
     content |-> toolResult]

AssistantToolCalls(calls) == [role |-> "assistant", tool_calls |-> calls]

\* Mutant: the second call is made without running the tools.
RunToolLoopSkipTools(msgs, calls, i) == [messages |-> msgs, i |-> Len(calls) + 1]

\* Mutant: only tool_calls[0] is looked at.
RunToolLoopFirstOnly(msgs, calls, i) ==
    IF i > Len(calls) \/ i > 1 THEN [messages |-> msgs, i |-> Len(calls) + 1]
    ELSE IF calls[i].name \in ToolNames THEN [messages |-> msgs, i |-> i]
    ELSE [messages |-> Append(msgs, [role |-> "tool", tool_call_id |-> calls[i].id,
                                     name |-> calls[i].name,
                                     content |-> <<"error", "Unknown function requested.">>]),
          i |-> Len(calls) + 1]

\* The for-loop over firstMsg.tool_calls from entry i on, as far as it runs
\* without awaiting: an unknown function name gets its error result at once.
RECURSIVE RunToolLoop(_, _, _)
RunToolLoop(msgs, calls, i) ==
    IF i > Len(calls) \/ calls[i].name \in ToolNames
    THEN [messages |-> msgs, i |-> i]
    ELSE RunToolLoop(Append(msgs, ToolMessage(calls[i], UnknownFunctionResult)),
                     calls, i + 1)

ModelCall(withTools, msgs) == [call |-> "model", tools |-> withTools, messages |-> msgs]

ToolRun(toolCall, what) == [call |-> "tool", name |-> toolCall.name, id |-> toolCall.id,
                            target |-> what]

ProfileRead(uid) == [call |-> "users.get", uid |-> uid]

\* An external call of the request failed: it threw, or answered with an error.
Failure(service) == [call |-> "failure", of |-> service]

\* The log with the failure of `service` noted when `failed`.
Noting(log, failed, service) == IF failed THEN Append(log, Failure(service)) ELSE log

\* A mutant: the profile named by the model's arguments.
ToolTargetFromArguments(toolCall, uid) ==
    IF toolCall.name = "find_jobs" THEN ParseArgs(toolCall.arguments).query
    ELSE ParseArgs(toolCall.arguments).uid

\* What the loop awaits at entry i: findJobs(functionArgs) or
\* fetchUserPreferences(uid), uid being the request's.
ToolTarget(toolCall, uid) ==
    IF toolCall.name = "find_jobs" THEN ParseArgs(toolCall.arguments).query ELSE uid

\* After the loop stopped at entry i: await that tool, or make the second call.
AfterLoop(r, rq, a, st) ==
    IF st.i > Len(rq.loc.tool_calls)
    THEN [rq EXCEPT !.pc = "awaitSecond", !.loc.i = st.i,
                    !.log = Append(@, ModelCall(FALSE, st.messages))]
    ELSE [rq EXCEPT !.pc = "awaitTool", !.loc.i = st.i,
                    !.log = Append(@, ToolRun(rq.loc.tool_calls[st.i],
                                              ToolTarget(rq.loc.tool_calls[st.i], rq.in.uid)))]

\* The handler from its start to `await fetchUserPreferences(uid)`.
ChatReceive(r, histories) ==
    /\ req[r].pc = "idle"
    /\ \E uid \in ChatUids, message \in ChatMessages, history \in histories :
         LET in == [uid |-> uid, message |-> message, history |-> history]
             rq == [req[r] EXCEPT !.route = "/chat", !.in = in]
         IN req' = [req EXCEPT ![r] =
              IF Falsy(uid)
              THEN [rq EXCEPT !.pc = "done", !.resp = JsonError(400, Text("User ID is missing."))]
              ELSE IF Falsy(message) \/ ~IsString(message) \/ TrimsToEmpty(message)
              THEN [rq EXCEPT !.pc = "done", !.resp = JsonError(400, Text("Message is empty."))]
              ELSE [rq EXCEPT !.pc = "awaitPrefs", !.log = Append(@, ProfileRead(uid))]]
    /\ UNCHANGED <<mod, heap, savedJobs, userStats, companyLogos, files>>

\* The profile read answered: build the messages and make the first call.
ChatPrefs(r) ==
    /\ req[r].route = "/chat" /\ req[r].pc = "awaitPrefs"
    /\ \E readOk \in BOOLEAN :
         LET a == NewMessagesArray(r)
             userPrefs == fetchUserPreferences(req[r].in.uid, readOk)
             msgs == InitialMessages(req[r].in)
         IN /\ heap' = [heap EXCEPT ![a] = msgs]
            /\ req' = [req EXCEPT ![r] =
                 [@ EXCEPT !.pc = "awaitFirst",
                           !.loc = [messages |-> a, userPrefs |-> userPrefs,
                                    detectedLanguage |-> detectLanguageSimple(req[r].in.message),
                                    first |-> "pending", tool_calls |-> <<>>, i |-> 0,
                                    results |-> <<>>],
                           !.log = Append(Noting(@, ~readOk, "users.get"),
                                          ModelCall(TRUE, msgs))]]
    /\ UNCHANGED <<mod, savedJobs, userStats, companyLogos, files>>

FirstReplyKinds == {"throw", "nochoices", "nomessage", "content", "tool_calls"}

\* The first reply arrived.
ChatFirst(r, max) ==
    /\ req[r].route = "/chat" /\ req[r].pc = "awaitFirst"
    /\ \E kind \in FirstReplyKinds, calls \in ToolCallLists(max) :
         /\ kind # "tool_calls" => calls = <<>>
         /\ LET rq == [req[r] EXCEPT !.loc.first = kind,
                                     !.log = Noting(@, kind \in {"throw", "nochoices"}, "model")]
                a == rq.loc.messages
                lang == rq.loc.detectedLanguage
                Respond1(rs) == [rq EXCEPT !.pc = "done", !.resp = rs]
            IN CASE kind = "throw" ->
                      /\ req' = [req EXCEPT ![r] = Respond1(
                            JsonError(500, Text("An error occurred processing the chat.")))]
                      /\ heap' = heap
                 [] kind = "nochoices" ->
                      /\ req' = [req EXCEPT ![r] = Respond1(
                            JsonError(500, Text("Invalid response from language model.")))]
                      /\ heap' = heap
                 [] kind = "nomessage" ->
                      /\ req' = [req EXCEPT ![r] = Respond1(
                            Json(200, [reply |-> Text(""), detectedLanguage |-> lang]))]
                      /\ heap' = heap
                 [] kind = "content" ->
                      /\ req' = [req EXCEPT ![r] = Respond1(
                            Json(200, [reply |-> Text("direct answer"), detectedLanguage |-> lang]))]
                      /\ heap' = heap
                 [] kind = "tool_calls" ->
                      LET pushed == Append(heap[a], AssistantToolCalls(calls))
                          st == RunToolLoop(pushed, calls, 1)
                      IN /\ heap' = [heap EXCEPT ![a] = st.messages]
                         /\ req' = [req EXCEPT ![r] =
                               AfterLoop(r, [rq EXCEPT !.loc.tool_calls = calls], a, st)]
    /\ UNCHANGED <<mod, savedJobs, userStats, companyLogos, files>>

\* The awaited tool returned: push its message and go on with the loop.
ChatTool(r) ==
    /\ req[r].route = "/chat" /\ req[r].pc = "awaitTool"
    /\ \E keyLoaded \in BOOLEAN, api \in ApiOutcomes, readOk \in BOOLEAN :
         LET rq == req[r]
             a == rq.loc.messages
             toolCall == rq.loc.tool_calls[rq.loc.i]
             toolResult ==
                 IF toolCall.name = "find_jobs"
                 THEN findJobsResult(keyLoaded, ParseArgs(toolCall.arguments).query, api)
                 ELSE ProfileJson(fetchUserPreferences(rq.in.uid, readOk))
             service == IF toolCall.name = "find_jobs" THEN "jsearch" ELSE "users.get"
             failed ==
                 IF toolCall.name = "find_jobs"
                 THEN api = "throw"
                      /\ findJobsCallsApi(keyLoaded, ParseArgs(toolCall.arguments).query)
                 ELSE ~readOk
             pushed == Append(heap[a], ToolMessage(toolCall, toolResult))
             st == RunToolLoop(pushed, rq.loc.tool_calls, rq.loc.i + 1)
         IN /\ heap' = [heap EXCEPT ![a] = st.messages]
            /\ req' = [req EXCEPT ![r] =
                  AfterLoop(r, [rq EXCEPT !.loc.results = Append(@, toolResult),
                                          !.log = Noting(@, failed, service)], a, st)]
    /\ UNCHANGED <<mod, savedJobs, userStats, companyLogos, files>>

SecondReplyKinds == {"throw", "nochoices", "content", "tool_calls"}

\* The second reply arrived: whatever it holds, the handler answers.
ChatSecond(r) ==
    /\ req[r].route = "/chat" /\ req[r].pc = "awaitSecond"
    /\ \E kind \in SecondReplyKinds :
         LET lang == req[r].loc.detectedLanguage
         IN req' = [req EXCEPT ![r] =
             [@ EXCEPT !.pc = "done",
                       !.log = Noting(@, kind \in {"throw", "nochoices"}, "model"),
                       !.resp =
               CASE kind = "throw" ->
                      JsonError(500, Text("An error occurred processing the chat."))
                 [] kind = "nochoices" ->
                      JsonError(500, Text("Failed to generate final response."))
                 [] kind = "content" ->
                      Json(200, [reply |-> Text("final answer"), detectedLanguage |-> lang])
                 [] kind = "tool_calls" ->
                      Json(200, [reply |-> Text("[object: assistant message with tool_calls]"),
                                 detectedLanguage |-> lang])]]
    /\ UNCHANGED <<mod, heap, savedJobs, userStats, companyLogos, files>>

\* One /chat request.
ChatNext == \E r \in {"r1"} : ChatReceive(r, Histories) \/ ChatPrefs(r) \/ ChatFirst(r, MaxToolCalls)
                               \/ ChatTool(r) \/ ChatSecond(r)

\* Concurrent /chat requests.
ChatNext2 == \E r \in Slots : ChatReceive(r, ArrayHistories) \/ ChatPrefs(r) \/ ChatFirst(r, MaxConcToolCalls)
                               \/ ChatTool(r) \/ ChatSecond(r)

\* Both clients up: neither is read by /chat.
InitChat == Init /\ mod = ModuleInit("client", "client")

SpecChat == InitChat /\ [][ChatNext]_vars

SpecChat2 == InitChat /\ [][ChatNext2]_vars


(***************************************************************************)
(* Uploads: POST /stt and POST /analyze-resume of the final server.js.     *)
(* multer has stored the uploaded file before the handler runs.            *)
(***************************************************************************)

\* The name multer's filename callback gives the upload of request r: the
\* field name and a suffix of its own.
UploadPath(r) == r

\* Messages a failing service can put in the error it throws; the empty one
\* is an error without details and without message.
UnderlyingErrors == {"", "ECONNRESET", "7 PERMISSION_DENIED"}

allowedMimeTypes == {"application/pdf", "image/png"}

MimeTypes == allowedMimeTypes \cup {"text/plain"}

Transcripts == {"", "find me a job", "naukri chahiye (Devanagari)"}

\* finally { if (req.file && fs.existsSync(req.file.path)) fs.unlinkSync(...) }
UnlinkSync(fs, path) == fs \ {path}

SttReceive(r) ==
    /\ req[r].pc = "idle"
    /\ \E hasFile \in BOOLEAN, readOk \in BOOLEAN :
         LET rq == [req[r] EXCEPT !.route = "/stt", !.in = [file |-> hasFile]]
             stored == IF hasFile THEN files \cup {UploadPath(r)} ELSE files
         IN IF ~hasFile
            THEN /\ req' = [req EXCEPT ![r] = [rq EXCEPT !.pc = "done",
                               !.resp = JsonError(400, Text("Audio file missing."))]]
                 /\ files' = stored
            ELSE IF mod.sttClient = "null"
            THEN /\ req' = [req EXCEPT ![r] = [rq EXCEPT !.pc = "done",
                               !.resp = JsonError(500, Text("STT client not initialized."))]]
                 /\ files' = stored
            ELSE IF ~readOk
            THEN /\ req' = [req EXCEPT ![r] = [rq EXCEPT !.pc = "done",
                               !.log = Append(@, Failure("fs.read")),
                               !.resp = JsonError(500, Text("Error transcribing audio."))]]
                 /\ files' = UnlinkSync(stored, UploadPath(r))
            ELSE /\ req' = [req EXCEPT ![r] = [rq EXCEPT !.pc = "awaitStt",
                               !.log = Append(@, [call |-> "stt.recognize"])]]
                 /\ files' = stored
    /\ UNCHANGED <<mod, heap, savedJobs, userStats, companyLogos>>

SttReply(r) ==
    /\ req[r].route = "/stt" /\ req[r].pc = "awaitStt"
    /\ \E ok \in BOOLEAN, transcription \in Transcripts :
         req' = [req EXCEPT ![r] =
            IF ok
            THEN [@ EXCEPT !.pc = "done",
                    !.resp = Json(200, [text |-> Text(transcription),
                                        detectedLanguage |-> detectLanguageSimple(transcription)])]
            ELSE [@ EXCEPT !.pc = "done", !.log = Append(@, Failure("stt")),
                    !.resp = JsonError(500, Text("Error transcribing audio."))]]
    /\ files' = UnlinkSync(files, UploadPath(r))
    /\ UNCHANGED <<mod, heap, savedJobs, userStats, companyLogos>>

\* The message of the error extractResumeText rethrows for a caught error
\* whose details/message is e.
OcrErrorMessage(e) ==
    <<"Failed to process document with OCR: ",
      IF e = "" THEN "Unknown Document AI OCR error" ELSE e>>

\* error.message || "Failed to analyze resume."
ResumeError(message) == JsonError(500, message)

\* The handler ends with response rs; its finally block has called fs.unlink,
\* whose callback is still to come.
ResumeEnd(rq, rs) == [rq EXCEPT !.pc = "done", !.resp = rs, !.loc = [unlink |-> "pending"]]

ResumeReceive(r) ==
    /\ req[r].pc = "idle"
    /\ \E hasFile \in BOOLEAN, mime \in MimeTypes, readOk \in BOOLEAN, e \in UnderlyingErrors :
         LET rq == [req[r] EXCEPT !.route = "/analyze-resume",
                                  !.in = [file |-> hasFile, mimetype |-> mime]]
             stored == IF hasFile THEN files \cup {UploadPath(r)} ELSE files
         IN IF ~hasFile
            THEN /\ req' = [req EXCEPT ![r] = [rq EXCEPT !.pc = "done",
                               !.resp = JsonError(400, Text("No resume file uploaded."))]]
                 /\ files' = stored
            ELSE IF mime \notin allowedMimeTypes
            THEN /\ req' = [req EXCEPT ![r] = [rq EXCEPT !.pc = "done",
                               !.resp = JsonError(400, <<"Unsupported file type: ", mime, ".">>)]]
                 /\ files' = UnlinkSync(stored, UploadPath(r))
            ELSE IF mod.docAIClient = "null"
            THEN /\ req' = [req EXCEPT ![r] = ResumeEnd(rq,
                               ResumeError(Text("Document AI client is not initialized.")))]
                 /\ files' = stored
            ELSE IF ~readOk
            THEN /\ req' = [req EXCEPT ![r] = ResumeEnd(
                               [rq EXCEPT !.log = Append(@, Failure("fs.read"))],
                               ResumeError(OcrErrorMessage(e)))]
                 /\ files' = stored
            ELSE /\ req' = [req EXCEPT ![r] = [rq EXCEPT !.pc = "awaitOcr",
                               !.log = Append(@, [call |-> "docai.processDocument"])]]
                 /\ files' = stored
    /\ UNCHANGED <<mod, heap, savedJobs, userStats, companyLogos>>

\* resumeText.trim().length < 50
MinResumeChars == 50

\* The texts Document AI can return: chars characters between leading and
\* trailing blanks; the text without characters and blanks is the empty string.
OcrTexts ==
    {[chars |-> k, blanks |-> b] : k \in {0, MinResumeChars - 1, MinResumeChars}, b \in {0, 2}}

\* A mutant: the length of the text as it came.
UntrimmedLength(text) == text.chars + text.blanks

\* resumeText.trim().length
TrimmedLength(text) == text.chars

\* !document.text, for a document that has a text
NoText(text) == text.chars + text.blanks = 0

\* !resumeText || resumeText.trim().length < 50
TooShort(text) == NoText(text) \/ TrimmedLength(text) < MinResumeChars

OcrOutcomes == {"throw", "nodocument", "text"}

OcrReturned(text) == [call |-> "docai.returned", text |-> text]

\* Document AI answered; with a text, getResumeFeedback runs up to its fetch.
ResumeOcr(r) ==
    /\ req[r].route = "/analyze-resume" /\ req[r].pc = "awaitOcr"
    /\ \E ocr \in OcrOutcomes, e \in UnderlyingErrors, text \in OcrTexts :
         req' = [req EXCEPT ![r] =
            IF ocr = "throw"
            THEN ResumeEnd([@ EXCEPT !.log = Append(@, Failure("docai"))],
                           ResumeError(OcrErrorMessage(e)))
            ELSE IF ocr = "nodocument" \/ NoText(text)
            THEN ResumeEnd([@ EXCEPT !.log = Append(@, Failure("docai"))],
                           ResumeError(OcrErrorMessage(
                              "Could not extract text from the document using OCR.")))
            ELSE IF TooShort(text)
            THEN ResumeEnd([@ EXCEPT !.log = Append(@, OcrReturned(text))],
                           ResumeError(Text("Extracted resume text is too short or empty.")))
            ELSE [@ EXCEPT !.pc = "awaitFeedback",
                           !.log = Append(Append(@, OcrReturned(text)),
                                          ModelCall(FALSE, <<"analysisPrompt">>))]]
    /\ UNCHANGED <<mod, heap, savedJobs, userStats, companyLogos, files>>

ModelOutcomes == {"throw", "notok", "nocontent", "ok"}

ResumeFeedback(r) ==
    /\ req[r].route = "/analyze-resume" /\ req[r].pc = "awaitFeedback"
    /\ \E out \in ModelOutcomes :
         req' = [req EXCEPT ![r] =
            IF out = "ok"
            THEN ResumeEnd(@, Json(200, [analysisResult |-> Text("feedback")]))
            ELSE ResumeEnd([@ EXCEPT !.log = Append(@, Failure("model"))],
                           ResumeError(Text("Could not get feedback from AI.")))]
    /\ UNCHANGED <<mod, heap, savedJobs, userStats, companyLogos, files>>

\* The callback of the finally block's fs.unlink(filePath, ...).
ResumeUnlinked(r) ==
    /\ req[r].route = "/analyze-resume" /\ req[r].pc = "done"
    /\ "unlink" \in DOMAIN req[r].loc /\ req[r].loc.unlink = "pending"
    /\ req' = [req EXCEPT ![r].loc.unlink = "done"]
    /\ files' = files \ {UploadPath(r)}
    /\ UNCHANGED <<mod, heap, savedJobs, userStats, companyLogos>>

UploadNext == \E r \in Slots : SttReceive(r) \/ SttReply(r) \/ ResumeReceive(r)
                                \/ ResumeOcr(r) \/ ResumeFeedback(r) \/ ResumeUnlinked(r)

SpecUpload == Init /\ [][UploadNext]_vars

\* No deletion of the request's upload is still to come.
Settled(r) ==
    req[r].pc = "done" /\ ("unlink" \in DOMAIN req[r].loc => req[r].loc.unlink = "done")

\* C8: every /stt or /analyze-resume request that carried a file has its
\* temp file deleted once it has ended, whatever its outcome.
C8_TempFileDeleted ==
    \A r \in Slots :
      /\ req[r].route \in {"/stt", "/analyze-resume"}
      /\ req[r].in.file
      /\ Settled(r)
      => UploadPath(r) \notin files

(***************************************************************************)
(* Claims about POST /chat.                                                *)
(***************************************************************************)
ModelCallsOf(r) == SelectSeq(req[r].log, LAMBDA e : e.call = "model")

ToolRunsOf(r) == SelectSeq(req[r].log, LAMBDA e : e.call = "tool")

\* The entries of the reply's tool_calls that name a tool of the server.
KnownCalls(calls) == SelectSeq(calls, LAMBDA c : c.name \in ToolNames)

\* The position in the log of the n-th event of kind `call`, 0 when absent.
PositionOf(log, call, n) ==
    LET at == {i \in 1..Len(log) :
                 /\ log[i].call = call
                 /\ Cardinality({j \in 1..i : log[j].call = call}) = n}
    IN IF at = {} THEN 0 ELSE CHOOSE i \in at : TRUE

\* C1: a /chat request makes at most two model calls; the first carries the
\* tools; a second one is made only when the first reply held tool_calls, only
\* after every requested tool has returned, and carries no tools; no model
\* call follows the second reply.
C1_TwoStepNoRetry ==
    \A r \in Slots :
      req[r].route = "/chat" =>
        LET mc == ModelCallsOf(r)
            second == PositionOf(req[r].log, "model", 2)
        IN /\ Len(mc) <= 2
           /\ Len(mc) >= 1 => mc[1].tools
           /\ Len(mc) = 2 =>
                /\ ~mc[2].tools
                /\ req[r].loc.first = "tool_calls"
                /\ Len(req[r].loc.results) = Len(KnownCalls(req[r].loc.tool_calls))
                /\ Len(ToolRunsOf(r)) = Len(req[r].loc.results)
                /\ \A i \in 1..Len(req[r].log) :
                     req[r].log[i].call = "tool" => i < second
           /\ req[r].pc = "done" /\ req[r].resp.status = 200 /\ Len(mc) = 1
                => req[r].loc.first \in {"content", "nomessage"}

C1_Witness ==
    \E r \in Slots :
      /\ req[r].pc = "done" /\ req[r].resp.status = 200
      /\ Len(ModelCallsOf(r)) = 2
      /\ Len(ToolRunsOf(r)) = 2
      /\ req[r].resp.body.reply = Text("[object: assistant message with tool_calls]")

\* C2 as stated: a /chat request executes at most one tool.
C2_AtMostOneTool ==
    \A r \in Slots : req[r].route = "/chat" => Len(ToolRunsOf(r)) <= 1

\* C2 amended: a /chat request executes one tool per entry of tool_calls that
\* names find_jobs or get_user_info, in the order of the entries: the tools run
\* so far are the first of those entries, and all of them once the second model
\* call is made.
C2_OneToolPerEntry ==
    \A r \in Slots :
      req[r].route = "/chat" /\ "first" \in DOMAIN req[r].loc =>
        LET known == KnownCalls(req[r].loc.tool_calls)
            runs == ToolRunsOf(r)
        IN /\ Len(runs) <= Len(known)
           /\ \A i \in 1..Len(runs) : runs[i].id = known[i].id /\ runs[i].name = known[i].name
           /\ Len(ModelCallsOf(r)) = 2 => Len(runs) = Len(known)

C2_Witness ==
    \E r \in Slots :
      /\ req[r].pc = "done" /\ req[r].resp.status = 200
      /\ Len(ToolRunsOf(r)) = 2
      /\ ToolRunsOf(r)[1].name = "find_jobs" /\ ToolRunsOf(r)[2].name = "get_user_info"

\* The tool messages the loop owes the entries i.. of tool_calls, results
\* being the values the awaited tools returned, in order.
RECURSIVE OwedToolMessages(_, _, _)
OwedToolMessages(calls, results, i) ==
    IF i > Len(calls) THEN <<>>
    ELSE IF calls[i].name \in ToolNames
    THEN IF results = <<>> THEN <<>>
         ELSE <<ToolMessage(calls[i], Head(results))>>
              \o OwedToolMessages(calls, Tail(results), i + 1)
    ELSE <<ToolMessage(calls[i], UnknownFunctionResult)>>
         \o OwedToolMessages(calls, results, i + 1)

\* C9: request handling shares no mutable in-process state: the module-level
\* bindings never change, concurrent /chat requests never use the same
\* messages array, and what a request sends to the model is made of its own
\* inputs and of the answers it received only.
C9_NoSharedMutableState ==
    /\ mod = ModuleInit("client", "client")
    /\ \A r \in Slots, q \in Slots :
         /\ r # q
         /\ "messages" \in DOMAIN req[r].loc
         /\ "messages" \in DOMAIN req[q].loc
         => req[r].loc.messages # req[q].loc.messages
    /\ \A r \in Slots :
         req[r].route = "/chat" =>
           LET mc == ModelCallsOf(r)
           IN /\ Len(mc) >= 1 => mc[1].messages = InitialMessages(req[r].in)
              /\ Len(mc) = 2 =>
                   mc[2].messages =
                      InitialMessages(req[r].in)
                      \o <<AssistantToolCalls(req[r].loc.tool_calls)>>
                      \o OwedToolMessages(req[r].loc.tool_calls, req[r].loc.results, 1)

\* Two requests are in their tool loops at the same time.
C9_Witness ==
    /\ req["r1"].pc = "awaitTool" /\ req["r2"].pc = "awaitSecond"
    /\ Len(heap["r1"]) >= 3 /\ Len(heap["r2"]) >= 4

(***************************************************************************)
(* The user_stats collection: GET /interview-prep/get-stats and            *)
(* POST /interview-prep/increment-stat.  A document is [exists, data];     *)
(* Firestore applies each update, set and get on its own.                  *)
(***************************************************************************)
allowedStats == {"hrAnswersCompleted", "starStoriesSaved", "techQuestionsPracticed",
                 "mockInterviewsRecorded", "companyNotesCreated"}

defaultStats == [s \in allowedStats |-> 0]

StatNamesSent == {"hrAnswersCompleted", "starStoriesSaved", "bogusStat", Undef}

StatUids == {"u1", Undef}

StatIncremented(statName) == <<"Stat ", statName, " incremented.">>

\* The counter a client would read: 0 while the document does not exist.
StatValue(uid, statName) ==
    IF userStats[uid].exists THEN userStats[uid].data[statName] ELSE 0

\* statsRef.update({[statName]: FieldValue.increment(1)}) as Firestore applies it.
FieldValueIncrement(doc, statName) ==
    [doc EXCEPT !.data = [@ EXCEPT ![statName] = @ + 1]]

\* What the NOT_FOUND branch writes: set() replaces the whole document.
CreateWithFirstStat(doc, statName) ==
    [exists |-> TRUE, data |-> [defaultStats EXCEPT ![statName] = 1]]

StatUpdateCall(uid, statName) == [call |-> "user_stats.update", uid |-> uid, stat |-> statName]

StatSetCall(uid) == [call |-> "user_stats.set", uid |-> uid]

StatGetCall(uid) == [call |-> "user_stats.get", uid |-> uid]

\* The handler from its start to `await statsRef.update(...)`.
IncrementReceive(r) ==
    /\ req[r].pc = "idle"
    /\ \E uid \in StatUids, statName \in StatNamesSent :
         LET rq == [req[r] EXCEPT !.route = "/interview-prep/increment-stat",
                                  !.in = [uid |-> uid, statName |-> statName]]
         IN req' = [req EXCEPT ![r] =
              IF Falsy(uid) \/ Falsy(statName)
              THEN [rq EXCEPT !.pc = "done",
                              !.resp = JsonError(400, Text("uid and statName are required."))]
              ELSE IF statName \notin allowedStats
              THEN [rq EXCEPT !.pc = "done", !.resp = JsonError(400, Text("Invalid statName."))]
              ELSE [rq EXCEPT !.pc = "awaitUpdate",
                              !.log = Append(@, StatUpdateCall(uid, statName))]]
    /\ UNCHANGED <<mod, heap, savedJobs, userStats, companyLogos, files>>

\* Firestore answers the update: applied, NOT_FOUND (code 5), or another error.
IncrementUpdate(r) ==
    /\ req[r].route = "/interview-prep/increment-stat" /\ req[r].pc = "awaitUpdate"
    /\ LET uid == req[r].in.uid
           statName == req[r].in.statName
       IN \E ok \in BOOLEAN :
            IF ~ok
            THEN /\ req' = [req EXCEPT ![r] =
                      [@ EXCEPT !.pc = "done", !.log = Append(@, Failure("user_stats.update")),
                                !.resp = JsonError(500, Text("Failed to increment stat."))]]
                 /\ UNCHANGED userStats
            ELSE IF userStats[uid].exists
            THEN /\ userStats' = [userStats EXCEPT ![uid] = FieldValueIncrement(@, statName)]
                 /\ req' = [req EXCEPT ![r] =
                      Respond(r, Json(200, [message |-> StatIncremented(statName)]))]
            ELSE /\ req' = [req EXCEPT ![r] =
                      [@ EXCEPT !.pc = "awaitSet",
                                !.log = Append(Append(@, Failure("user_stats.update NOT_FOUND")),
                                               StatSetCall(uid))]]
                 /\ UNCHANGED userStats
    /\ UNCHANGED <<mod, heap, savedJobs, companyLogos, files>>

\* Firestore answers the set of the NOT_FOUND branch.
IncrementSet(r) ==
    /\ req[r].route = "/interview-prep/increment-stat" /\ req[r].pc = "awaitSet"
    /\ LET uid == req[r].in.uid
           statName == req[r].in.statName
       IN \E ok \in BOOLEAN :
            IF ok
            THEN /\ userStats' = [userStats EXCEPT ![uid] = CreateWithFirstStat(@, statName)]
                 /\ req' = [req EXCEPT ![r] =
                      Respond(r, Json(200, [message |-> StatIncremented(statName)]))]
            ELSE /\ req' = [req EXCEPT ![r] =
                      [@ EXCEPT !.pc = "done", !.log = Append(@, Failure("user_stats.set")),
                                !.resp = JsonError(500, Text("Failed to create stats."))]]
                 /\ UNCHANGED userStats
    /\ UNCHANGED <<mod, heap, savedJobs, companyLogos, files>>

\* GET /interview-prep/get-stats from its start to `await statsRef.get()`.
GetStatsReceive(r) ==
    /\ req[r].pc = "idle"
    /\ \E uid \in StatUids :
         LET rq == [req[r] EXCEPT !.route = "/interview-prep/get-stats", !.in = [uid |-> uid]]
         IN req' = [req EXCEPT ![r] =
              IF Falsy(uid)
              THEN [rq EXCEPT !.pc = "done", !.resp = JsonError(400, Text("User ID is required."))]
              ELSE [rq EXCEPT !.pc = "awaitGet", !.log = Append(@, StatGetCall(uid))]]
    /\ UNCHANGED <<mod, heap, savedJobs, userStats, companyLogos, files>>

\* getUserStats after its read: the document's data, or the default is written.
GetStatsRead(r) ==
    /\ req[r].route = "/interview-prep/get-stats" /\ req[r].pc = "awaitGet"
    /\ LET uid == req[r].in.uid
       IN \E ok \in BOOLEAN :
            req' = [req EXCEPT ![r] =
              IF ~ok
              THEN [@ EXCEPT !.pc = "done", !.log = Append(@, Failure("user_stats.get")),
                             !.resp = JsonError(500, Text("Failed to fetch user stats."))]
              ELSE IF userStats[uid].exists
              THEN Respond(r, Json(200, [stats |-> userStats[uid].data]))
              ELSE [@ EXCEPT !.pc = "awaitSet", !.log = Append(@, StatSetCall(uid))]]
    /\ UNCHANGED <<mod, heap, savedJobs, userStats, companyLogos, files>>

\* getUserStats after `await statsRef.set(defaultStats)`.
GetStatsSet(r) ==
    /\ req[r].route = "/interview-prep/get-stats" /\ req[r].pc = "awaitSet"
    /\ LET uid == req[r].in.uid
       IN \E ok \in BOOLEAN :
            IF ok
            THEN /\ userStats' = [userStats EXCEPT ![uid] =
                                    [exists |-> TRUE, data |-> defaultStats]]
                 /\ req' = [req EXCEPT ![r] = Respond(r, Json(200, [stats |-> defaultStats]))]
            ELSE /\ req' = [req EXCEPT ![r] =
                      [@ EXCEPT !.pc = "done", !.log = Append(@, Failure("user_stats.set")),
                                !.resp = JsonError(500, Text("Failed to fetch user stats."))]]
                 /\ UNCHANGED userStats
    /\ UNCHANGED <<mod, heap, savedJobs, companyLogos, files>>

\* Concurrent increment requests, the only traffic on user_stats.
StatsNext ==
    \E r \in Slots : IncrementReceive(r) \/ IncrementUpdate(r) \/ IncrementSet(r)

SpecStats == Init /\ [][StatsNext]_vars

IncrementsDone(uid, statName) ==
    {r \in Slots : /\ req[r].route = "/interview-prep/increment-stat"
                   /\ req[r].pc = "done" /\ req[r].resp.status = 200
                   /\ req[r].in.uid = uid /\ req[r].in.statName = statName}

\* C6: once every increment request has been answered, each counter of a user
\* has grown by exactly the number of increment requests for it answered 200.
C6_IncrementIsAtomic ==
    (\A r \in Slots : req[r].pc \in {"idle", "done"}) =>
        \A statName \in allowedStats :
            StatValue("u1", statName) = Cardinality(IncrementsDone("u1", statName))

(***************************************************************************)
(* GET /jobs, findJobs and getCompanyLogo.  A company name and a URL are   *)
(* sequences (of characters, of parts); <<>> is a missing or empty one.    *)
(* companyLogos holds the company_logos documents (docs), the set() calls  *)
(* that getCompanyLogo issued without awaiting them (writes), and those    *)
(* that failed (dropped).                                                  *)
(***************************************************************************)
MaxJobs == 2

\* The same bound where /jobs is one handler among all the others.
MaxJobsAmongAll == 1

MaxJobsReturned == 7

UpperLetters == <<"A", "B", "C", "D", "E", "F", "G", "H", "I", "J", "K", "L", "M",
                  "N", "O", "P", "Q", "R", "S", "T", "U", "V", "W", "X", "Y", "Z">>

LowerLetters == <<"a", "b", "c", "d", "e", "f", "g", "h", "i", "j", "k", "l", "m",
                  "n", "o", "p", "q", "r", "s", "t", "u", "v", "w", "x", "y", "z">>

Digits == {"0", "1", "2", "3", "4", "5", "6", "7", "8", "9"}

toLowerCase(c) ==
    IF \E i \in 1..26 : UpperLetters[i] = c
    THEN LowerLetters[CHOOSE i \in 1..26 : UpperLetters[i] = c]
    ELSE c

\* /[^a-z0-9]/
IsLowerAlnum(c) == c \in Digits \/ \E i \in 1..26 : LowerLetters[i] = c

\* /inc|llc|ltd|pvt/
LegalForms == {<<"i", "n", "c">>, <<"l", "l", "c">>, <<"l", "t", "d">>, <<"p", "v", "t">>}

RECURSIVE KeepAlnum(_)
KeepAlnum(s) ==
    IF s = <<>> THEN <<>>
    ELSE (IF IsLowerAlnum(Head(s)) THEN <<Head(s)>> ELSE <<>>) \o KeepAlnum(Tail(s))

\* One left-to-right pass, as String.prototype.replace with the g flag makes.
RECURSIVE DropLegalForms(_)
DropLegalForms(s) ==
    IF s = <<>> THEN <<>>
    ELSE IF Len(s) >= 3 /\ SubSeq(s, 1, 3) \in LegalForms
    THEN DropLegalForms(SubSeq(s, 4, Len(s)))
    ELSE <<Head(s)>> \o DropLegalForms(Tail(s))

companyKey(companyName) ==
    DropLegalForms(KeepAlnum([i \in 1..Len(companyName) |-> toLowerCase(companyName[i])]))

guessedUrl(key) == <<"https://img.logo.dev/">> \o key \o <<".com">>

NullLogo == <<>>

\* companyName.trim() === ""
TrimsToNothing(companyName) == \A i \in 1..Len(companyName) : companyName[i] = " "

\* A name that is not a string: companyName.trim is not a function.
NonStringName == <<NotAString>>

AcmeInc == <<"A", "c", "m", "e", " ", "I", "n", "c">>

AcmeLlc == <<"A", "C", "M", "E", ",", " ", "L", "L", "C">>

JSearchJobs ==
    { [job_id |-> "j1", employer_name |-> AcmeInc, employer_logo |-> <<>>],
      [job_id |-> "j2", employer_name |-> AcmeLlc, employer_logo |-> <<>>],
      [job_id |-> "j3", employer_name |-> <<"G", "l", "o", "b", "e", "x">>,
       employer_logo |-> <<"https://cdn.jsearch.example/globex.png">>],
      [job_id |-> "j4", employer_name |-> <<>>, employer_logo |-> <<>>],
      [job_id |-> "j5", employer_name |-> <<"I", "n", "c", ".">>, employer_logo |-> <<>>],
      [job_id |-> "j6", employer_name |-> <<" ", " ">>, employer_logo |-> <<>>],
      [job_id |-> "j7", employer_name |-> NonStringName, employer_logo |-> <<>>] }

\* A reply with more jobs than findJobs returns; the last one has a name that
\* is not a string.
LongJSearchData ==
    LET job(id) == CHOOSE j \in JSearchJobs : j.job_id = id
    IN <<job("j1"), job("j3"), job("j3"), job("j3"), job("j4"), job("j3"), job("j6"), job("j7")>>

\* result.data of a job-search reply that brings data.
JSearchData(max) == UNION {[1..n -> JSearchJobs] : n \in 1..max} \cup {LongJSearchData}

\* A mutant: every job of the reply is processed.
SliceAll(data) == data

\* result.data.slice(0, 7)
Slice(data) == SubSeq(data, 1, IF Len(data) < MaxJobsReturned THEN Len(data) ELSE MaxJobsReturned)

NoLogoDoc == [exists |-> FALSE, url |-> NullLogo]

LogoDoc(key) ==
    IF \E d \in companyLogos.docs : d.key = key
    THEN [exists |-> TRUE, url |-> (CHOOSE d \in companyLogos.docs : d.key = key).url]
    ELSE NoLogoDoc

\* logoRef.set({url, companyName, lastGuessed}) as Firestore applies it.
LogoSet(docs, w) ==
    {d \in docs : d.key # w.key} \cup {[key |-> w.key, url |-> w.url, companyName |-> w.companyName]}

\* getCompanyLogo from its start to `await logoRef.get()`.
getCompanyLogoStart(job) ==
    LET companyName == job.employer_name
        jsearchLogo == job.employer_logo
        done(url, how) == [job |-> job, pc |-> "done", logoUrl |-> url, cache |-> how]
    IN IF jsearchLogo # <<>> THEN done(jsearchLogo, "unused")
       ELSE IF companyName = <<>> THEN done(NullLogo, "unused")
       ELSE IF companyName = NonStringName THEN done(NullLogo, "threw")
       ELSE IF TrimsToNothing(companyName) THEN done(NullLogo, "unused")
       ELSE IF companyKey(companyName) = <<>> THEN done(NullLogo, "unused")
       ELSE [job |-> job, pc |-> "awaitGet", logoUrl |-> NullLogo, cache |-> "pending"]

\* getCompanyLogo once the read has answered; the mutant lets a failed read escape.
LogoReadRethrows(task, readOk, doc) ==
    IF ~readOk THEN [task EXCEPT !.pc = "done", !.cache = "threw"]
    ELSE IF doc.exists THEN [task EXCEPT !.pc = "done", !.logoUrl = doc.url, !.cache = "hit"]
    ELSE [task EXCEPT !.pc = "done", !.cache = "miss",
                      !.logoUrl = guessedUrl(companyKey(task.job.employer_name))]

\* A mutant: the guess is made from the name as given, not from the key.
LogoReadGuessesFromName(task, readOk, doc) ==
    IF ~readOk THEN [task EXCEPT !.pc = "done", !.logoUrl = NullLogo, !.cache = "failed"]
    ELSE IF doc.exists THEN [task EXCEPT !.pc = "done", !.logoUrl = doc.url, !.cache = "hit"]
    ELSE [task EXCEPT !.pc = "done", !.cache = "miss",
                      !.logoUrl = guessedUrl(task.job.employer_name)]

getCompanyLogoRead(task, readOk, doc) ==
    IF ~readOk THEN [task EXCEPT !.pc = "done", !.logoUrl = NullLogo, !.cache = "failed"]
    ELSE IF doc.exists THEN [task EXCEPT !.pc = "done", !.logoUrl = doc.url, !.cache = "hit"]
    ELSE [task EXCEPT !.pc = "done", !.cache = "miss",
                      !.logoUrl = guessedUrl(companyKey(task.job.employer_name))]

\* The record findJobs builds for a job (the fields derived from the logo lookup
\* and the ones that identify the job).
JobRecord(task) ==
    [job_id |-> task.job.job_id, company |-> task.job.employer_name,
     companyLogoUrl |-> task.logoUrl]

JSearchCall(queryText) == [call |-> "jsearch", params |-> [query |-> queryText]]

LogoGetCall(i, key) == [call |-> "company_logos.get", task |-> i, key |-> key]

LogoSetCall(i, key) == [call |-> "company_logos.set", task |-> i, key |-> key]

\* !query || query.trim() === "", for a query text of parts.
QueryBlank(queryText) == \A i \in 1..Len(queryText) : Falsy(queryText[i]) \/ TrimsToEmpty(queryText[i])

JobsJson(jobs) == Json(200, [jobs |-> jobs])

JSearchOutcomes == {"throw", "error", "nodata", "data"}

JobsQueries == {Undef, "java jobs", Blank}

EmploymentTypes == {Undef, "INTERN"}

\* The query GET /jobs builds from the profile.
PrefsQuery(prefs) ==
    IF prefs.exists
    THEN <<IF Falsy(prefs.skills) THEN "jobs" ELSE prefs.skills, " in ",
           IF Falsy(prefs.location) THEN "India" ELSE prefs.location>>
    ELSE <<"tech jobs in India">>

\* A mutant: an issued-gets variant in which only the first pending lookup is started.
RECURSIVE IssuedGetsOneAtATime(_, _)
IssuedGetsOneAtATime(tasks, i) ==
    IF i > Len(tasks) THEN <<>>
    ELSE IF tasks[i].pc = "awaitGet"
         THEN <<LogoGetCall(i, companyKey(tasks[i].job.employer_name))>>
         ELSE IssuedGetsOneAtATime(tasks, i + 1)

\* The cache reads findJobs has in flight once map() has run over the jobs.
RECURSIVE IssuedGets(_, _)
IssuedGets(tasks, i) ==
    IF i > Len(tasks) THEN <<>>
    ELSE (IF tasks[i].pc = "awaitGet"
          THEN <<LogoGetCall(i, companyKey(tasks[i].job.employer_name))>>
          ELSE <<>>) \o IssuedGets(tasks, i + 1)

\* What findJobs returns once Promise.all has settled: the catch turns a
\* rejected lookup into the empty list.
findJobsReturn(tasks) ==
    IF \E i \in 1..Len(tasks) : tasks[i].cache = "threw" THEN <<>>
    ELSE [i \in 1..Len(tasks) |-> JobRecord(tasks[i])]

\* Promise.all has settled: a lookup rejected, or every lookup returned.
LogosSettled(tasks) ==
    \/ \E i \in 1..Len(tasks) : tasks[i].cache = "threw"
    \/ \A i \in 1..Len(tasks) : tasks[i].pc = "done"

\* findJobs from its start to `await fetch(url, ...)`, inside GET /jobs.
FindJobsEnter(rq, keyLoaded, queryText) ==
    IF ~keyLoaded \/ QueryBlank(queryText)
    THEN [rq EXCEPT !.pc = "done", !.resp = JobsJson(<<>>),
                    !.loc = [query |-> queryText, data |-> <<>>, tasks |-> <<>>,
                             keyLoaded |-> keyLoaded]]
    ELSE [rq EXCEPT !.pc = "awaitSearch", !.log = Append(@, JSearchCall(queryText)),
                    !.loc = [query |-> queryText, data |-> <<>>, tasks |-> <<>>,
                             keyLoaded |-> keyLoaded]]

\* GET /jobs from its start to its first await.
JobsReceive(r) ==
    /\ req[r].pc = "idle"
    /\ \E uid \in ChatUids, q \in JobsQueries, et \in EmploymentTypes, keyLoaded \in BOOLEAN :
         LET rq == [req[r] EXCEPT !.route = "/jobs",
                                  !.in = [uid |-> uid, q |-> q, employment_types |-> et]]
         IN req' = [req EXCEPT ![r] =
              IF Falsy(q) /\ ~Falsy(uid)
              THEN [rq EXCEPT !.pc = "awaitPrefs", !.log = Append(@, ProfileRead(uid))]
              ELSE FindJobsEnter(rq, keyLoaded,
                                 IF Falsy(q) THEN <<"jobs in India">> ELSE <<q>>)]
    /\ UNCHANGED <<mod, heap, savedJobs, userStats, companyLogos, files>>

\* The profile read of GET /jobs answered.
JobsPrefs(r) ==
    /\ req[r].route = "/jobs" /\ req[r].pc = "awaitPrefs"
    /\ \E readOk \in BOOLEAN, keyLoaded \in BOOLEAN :
         req' = [req EXCEPT ![r] =
            FindJobsEnter([@ EXCEPT !.log = Noting(@, ~readOk, "users.get")], keyLoaded,
                          PrefsQuery(fetchUserPreferences(req[r].in.uid, readOk)))]
    /\ UNCHANGED <<mod, heap, savedJobs, userStats, companyLogos, files>>

\* The job-search API answered: findJobs starts one logo lookup per job.
JobsSearch(r, max) ==
    /\ req[r].route = "/jobs" /\ req[r].pc = "awaitSearch"
    /\ \E api \in JSearchOutcomes :
         IF api # "data"
         THEN req' = [req EXCEPT ![r] =
                [@ EXCEPT !.pc = "done", !.resp = JobsJson(<<>>),
                          !.log = Noting(@, api \in {"throw", "error"}, "jsearch")]]
         ELSE \E data \in JSearchData(max) :
                LET tasks == [i \in 1..Len(Slice(data)) |-> getCompanyLogoStart(Slice(data)[i])]
                    rq == [req[r] EXCEPT !.loc.data = data, !.loc.tasks = tasks,
                                         !.log = @ \o IssuedGets(tasks, 1)]
                IN req' = [req EXCEPT ![r] =
                     IF LogosSettled(tasks)
                     THEN [rq EXCEPT !.pc = "done", !.resp = JobsJson(findJobsReturn(tasks))]
                     ELSE [rq EXCEPT !.pc = "awaitLogos"]]
    /\ UNCHANGED <<mod, heap, savedJobs, userStats, companyLogos, files>>

\* The cache read of lookup i answered.
LogoGet(r, i) ==
    /\ req[r].route = "/jobs" /\ req[r].pc \in {"awaitLogos", "done"}
    /\ i \in 1..Len(req[r].loc.tasks)
    /\ req[r].loc.tasks[i].pc = "awaitGet"
    /\ \E readOk \in BOOLEAN :
         LET old == req[r].loc.tasks[i]
             key == companyKey(old.job.employer_name)
             task == getCompanyLogoRead(old, readOk, LogoDoc(key))
             tasks == [req[r].loc.tasks EXCEPT ![i] = task]
             rq == [req[r] EXCEPT !.loc.tasks = tasks,
                      !.log = IF task.cache = "miss" THEN Append(@, LogoSetCall(i, key))
                              ELSE Noting(@, ~readOk, "company_logos.get")]
         IN /\ req' = [req EXCEPT ![r] =
                 IF rq.pc = "awaitLogos" /\ LogosSettled(tasks)
                 THEN [rq EXCEPT !.pc = "done", !.resp = JobsJson(findJobsReturn(tasks))]
                 ELSE rq]
            /\ companyLogos' =
                 IF task.cache = "miss"
                 THEN [companyLogos EXCEPT !.writes = @ \cup
                         {[key |-> key, url |-> task.logoUrl,
                           companyName |-> old.job.employer_name]}]
                 ELSE companyLogos
    /\ UNCHANGED <<mod, heap, savedJobs, userStats, files>>

\* Firestore settles a set() that getCompanyLogo did not await.
LogoWriteSettle ==
    /\ \E w \in companyLogos.writes, ok \in BOOLEAN :
         companyLogos' =
            IF ok THEN [companyLogos EXCEPT !.writes = @ \ {w}, !.docs = LogoSet(@, w)]
            ELSE [companyLogos EXCEPT !.writes = @ \ {w}, !.dropped = @ \cup {w}]
    /\ UNCHANGED <<req, mod, heap, savedJobs, userStats, files>>

JobsNext ==
    \/ \E r \in {"r1"} : JobsReceive(r) \/ JobsPrefs(r) \/ JobsSearch(r, MaxJobs)
    \/ \E r \in {"r1"}, i \in 1..MaxJobsReturned : LogoGet(r, i)
    \/ LogoWriteSettle

\* The module-level clients play no part here: one startup outcome is enough.
SpecJobs == InitChat /\ [][JobsNext]_vars

\* The cache calls lookup i of request r made.
CacheCallsOf(r, i) ==
    {n \in 1..Len(req[r].log) :
        /\ req[r].log[n].call \in {"company_logos.get", "company_logos.set"}
        /\ req[r].log[n].task = i}

\* GET /jobs requests answered after the job-search API brought data.
JobsAnswered ==
    {r \in Slots : req[r].route = "/jobs" /\ req[r].pc = "done" /\ req[r].loc.data # <<>>}

\* C7: the company-logo memo is best-effort.  Whatever the reads and writes of
\* company_logos do, findJobs returns one record per job of the (sliced) API
\* data, in order (unless a lookup fails for a reason other than the cache: a
\* name that is not a string); a lookup whose read failed gives a null logo, a
\* lookup that missed gives the guessed URL whether its write succeeds, fails or
\* is still pending, and a job with an API logo keeps it and makes no cache call.
C7_LogoMemoBestEffort ==
    \A r \in JobsAnswered :
        LET data == Slice(req[r].loc.data)
            tasks == req[r].loc.tasks
            jobs == req[r].resp.body.jobs
        IN /\ req[r].resp.status = 200
           /\ (\A i \in 1..Len(data) : data[i].employer_name # NonStringName) =>
                 /\ Len(jobs) = Len(data)
                 /\ \A i \in 1..Len(data) :
                      /\ jobs[i].job_id = data[i].job_id
                      /\ jobs[i].company = data[i].employer_name
                      /\ tasks[i].pc = "done"
                      /\ jobs[i].companyLogoUrl = tasks[i].logoUrl
                      /\ tasks[i].cache = "failed" => jobs[i].companyLogoUrl = NullLogo
                      /\ tasks[i].cache = "miss" =>
                            jobs[i].companyLogoUrl = guessedUrl(companyKey(data[i].employer_name))
                      /\ data[i].employer_logo # <<>> =>
                            /\ jobs[i].companyLogoUrl = data[i].employer_logo
                            /\ CacheCallsOf(r, i) = {}

\* C7 witness: a request answered with both jobs although one cache read failed
\* and the write of the other lookup's guess failed.
C7_Witness ==
    \E r \in JobsAnswered :
        /\ Len(req[r].resp.body.jobs) = 2
        /\ req[r].loc.tasks[1].cache = "failed"
        /\ req[r].resp.body.jobs[1].companyLogoUrl = NullLogo
        /\ req[r].loc.tasks[2].cache = "miss"
        /\ req[r].resp.body.jobs[2].companyLogoUrl = guessedUrl(<<"a", "c", "m", "e">>)
        /\ \E w \in companyLogos.dropped : w.url = req[r].resp.body.jobs[2].companyLogoUrl

(***************************************************************************)
(* GET, POST and DELETE /users/:uid/saved-jobs.  savedJobs.docs holds the  *)
(* documents as [path, data]; savedJobs.acked is a history variable: what  *)
(* the answered POSTs (201) and DELETEs (200) told the clients is saved,   *)
(* as [uid, job_id, data].  Job ids are single path segments.              *)
(***************************************************************************)
JobIds == <<"j1", "j2">>

PostBodies ==
    { [job_id |-> "j1", title |-> "Backend Developer"],
      [job_id |-> "j1", title |-> "Backend Developer (edited)"],
      [job_id |-> "j2", title |-> "Data Analyst"],
      [job_id |-> Undef, title |-> "Data Analyst"],
      [job_id |-> "", title |-> "Data Analyst"],
      [job_id |-> Undef, title |-> Undef] }

\* req.body of a request that carries none.
NoBody == [job_id |-> Undef, title |-> Undef]

\* The elements of a list.
Range(list) == {list[i] : i \in 1..Len(list)}

SavedRoutes == {"GET /users/:uid/saved-jobs", "POST /users/:uid/saved-jobs",
                "DELETE /users/:uid/saved-jobs/:jobId"}

\* A mutant: the collection of every user's saved jobs.
AnySavedJobsCollection(uid) == <<"users", "u1", "saved_jobs">>

\* db.collection("users").doc(uid).collection("saved_jobs")
SavedJobsCollection(uid) == <<"users", uid, "saved_jobs">>

\* ... .doc(jobId)
SavedJobDoc(uid, jobId) == Append(SavedJobsCollection(uid), jobId)

\* snap.docs.map((d) => d.data()) of a collection read, in document-id order.
RECURSIVE SnapData(_, _, _)
SnapData(docs, collection, i) ==
    IF i > Len(JobIds) THEN <<>>
    ELSE (IF \E d \in docs : d.path = Append(collection, JobIds[i])
          THEN <<(CHOOSE d \in docs : d.path = Append(collection, JobIds[i])).data>>
          ELSE <<>>) \o SnapData(docs, collection, i + 1)

\* A mutant: a set() that adds a document next to the one it finds.
DocSetAddsDocument(docs, path, data) == docs \cup {[path |-> path, data |-> data]}

\* .set(jobData) and .delete() as Firestore applies them.
DocSet(docs, path, data) == {d \in docs : d.path # path} \cup {[path |-> path, data |-> data]}

DocDelete(docs, path) == {d \in docs : d.path # path}

\* The history variable after an answered POST and an answered DELETE.
AckPost(acked, uid, body) ==
    {a \in acked : ~(a.uid = uid /\ a.job_id = body.job_id)}
        \cup {[uid |-> uid, job_id |-> body.job_id, data |-> body]}

AckDelete(acked, uid, jobId) == {a \in acked : ~(a.uid = uid /\ a.job_id = jobId)}

SavedCall(op, path) == [call |-> op, path |-> path]

\* One of the three handlers from its start to its Firestore call.
SavedReceive(r) ==
    /\ req[r].pc = "idle"
    /\ \E route \in SavedRoutes, uid \in Uids, body \in PostBodies, jobId \in Range(JobIds) :
         /\ route # "POST /users/:uid/saved-jobs" => body = NoBody
         /\ route # "DELETE /users/:uid/saved-jobs/:jobId" => jobId = JobIds[1]
         /\ LET rq == [req[r] EXCEPT !.route = route,
                                     !.in = [uid |-> uid, body |-> body, jobId |-> jobId]]
            IN req' = [req EXCEPT ![r] =
                 IF route = "GET /users/:uid/saved-jobs"
                 THEN [rq EXCEPT !.pc = "awaitStore",
                         !.log = Append(@, SavedCall("saved_jobs.get", SavedJobsCollection(uid)))]
                 ELSE IF route = "POST /users/:uid/saved-jobs"
                 THEN IF Falsy(body.job_id)
                      THEN [rq EXCEPT !.pc = "done", !.resp = JsonError(400, Text("Job ID missing."))]
                      ELSE [rq EXCEPT !.pc = "awaitStore",
                              !.log = Append(@, SavedCall("saved_jobs.set",
                                                          SavedJobDoc(uid, body.job_id)))]
                 ELSE [rq EXCEPT !.pc = "awaitStore",
                         !.log = Append(@, SavedCall("saved_jobs.delete", SavedJobDoc(uid, jobId)))]]
    /\ UNCHANGED <<mod, heap, savedJobs, userStats, companyLogos, files>>

\* Firestore answers the call of a saved-jobs handler.
SavedStore(r) ==
    /\ req[r].route \in SavedRoutes /\ req[r].pc = "awaitStore"
    /\ LET uid == req[r].in.uid
           body == req[r].in.body
           jobId == req[r].in.jobId
           call == req[r].log[Len(req[r].log)]
           failed(text) == [req[r] EXCEPT !.pc = "done", !.log = Append(@, Failure(call.call)),
                                          !.resp = JsonError(500, Text(text))]
       IN \E ok \in BOOLEAN :
            IF req[r].route = "GET /users/:uid/saved-jobs"
            THEN /\ req' = [req EXCEPT ![r] =
                      IF ok
                      THEN [@ EXCEPT !.pc = "done",
                              !.loc = [acked |-> {a \in savedJobs.acked : a.uid = uid}],
                              !.resp = Json(200, [saved |-> SnapData(savedJobs.docs, call.path, 1)])]
                      ELSE failed("Could not fetch saved jobs.")]
                 /\ UNCHANGED savedJobs
            ELSE IF req[r].route = "POST /users/:uid/saved-jobs"
            THEN IF ok
                 THEN /\ savedJobs' = [docs |-> DocSet(savedJobs.docs, call.path, body),
                                       acked |-> AckPost(savedJobs.acked, uid, body)]
                      /\ req' = [req EXCEPT ![r] =
                            Respond(r, Json(201, [message |-> Text("Job saved.")]))]
                 ELSE /\ req' = [req EXCEPT ![r] = failed("Could not save job.")]
                      /\ UNCHANGED savedJobs
            ELSE IF ok
                 THEN /\ savedJobs' = [docs |-> DocDelete(savedJobs.docs, call.path),
                                       acked |-> AckDelete(savedJobs.acked, uid, jobId)]
                      /\ req' = [req EXCEPT ![r] =
                            Respond(r, Json(200, [message |-> Text("Job unsaved.")]))]
                 ELSE /\ req' = [req EXCEPT ![r] = failed("Could not unsave job.")]
                      /\ UNCHANGED savedJobs
    /\ UNCHANGED <<mod, heap, userStats, companyLogos, files>>

\* The client of an answered saved-jobs request sends its next request.
SavedAgain(r) ==
    /\ req[r].route \in SavedRoutes /\ req[r].pc = "done"
    /\ req' = [req EXCEPT ![r] = IdleReq]
    /\ UNCHANGED <<mod, heap, savedJobs, userStats, companyLogos, files>>

SavedNext == \E r \in Slots : SavedReceive(r) \/ SavedStore(r) \/ SavedAgain(r)

SpecSaved == InitChat /\ [][SavedNext]_vars

\* C10: saved jobs are stored verbatim by key.  A GET answered 200 lists, for
\* its uid, exactly the bodies whose POST under that uid was answered 201 and
\* has not been replaced or deleted since (so it holds a record equal to each
\* posted body and no record saved under another uid only); a POST without
\* job_id is answered 400 and has made no Firestore call.
C10_SavedVerbatimByKey ==
    \A r \in Slots :
        /\ (req[r].route = "GET /users/:uid/saved-jobs" /\ req[r].pc = "done"
              /\ req[r].resp.status = 200) =>
              Range(req[r].resp.body.saved) = {a.data : a \in req[r].loc.acked}
        /\ (req[r].route = "POST /users/:uid/saved-jobs" /\ req[r].pc = "done") =>
              /\ Falsy(req[r].in.body.job_id) <=> req[r].resp.status = 400
              /\ Falsy(req[r].in.body.job_id) => req[r].log = <<>>

\* C10 witness: u1 reads back the job it posted while u2 holds another one.
C10_Witness ==
    \E r \in Slots :
        /\ req[r].route = "GET /users/:uid/saved-jobs" /\ req[r].pc = "done"
        /\ req[r].in.uid = "u1" /\ req[r].resp.status = 200
        /\ req[r].resp.body = [saved |-> <<[job_id |-> "j1", title |-> "Backend Developer"]>>]
        /\ \E d \in savedJobs.docs : d.path = SavedJobDoc("u2", "j2")

(***************************************************************************)
(* The interview-prep handlers built on simpleOpenAICall.  A model reply   *)
(* is: the request threw, an error status, no content, a text that is not  *)
(* JSON, JSON inside a ```json fence, or plain JSON.                       *)
(***************************************************************************)
ModelReplies == {"throw", "notok", "nocontent", "text", "fenced", "json"}

\* The replies that are a failed call, as opposed to an unexpected content.
FailedReplies == {"throw", "notok", "nocontent"}

\* simpleOpenAICall: the trimmed content, or the error it rethrows.
simpleOpenAICall(reply) ==
    IF reply = "throw" THEN [threw |-> TRUE, content |-> Undef]
    ELSE IF reply \in {"notok", "nocontent"} THEN [threw |-> TRUE, content |-> Undef]
    ELSE [threw |-> FALSE, content |-> reply]

\* content.match(/```json\s*([\s\S]*?)\s*```/) and the replacement by its group.
StripJsonFence(content) == IF content = "fenced" THEN "json" ELSE content

\* Whether JSON.parse(content) returns.
JsonParses(content) == content = "json"

PrepRoutes == {"/interview-prep/questions", "/interview-prep/daily-tip",
               "/interview-prep/generate-email", "/interview-prep/evaluate-answer",
               "/interview-prep/tips-list", "/interview-prep/evaluate-star",
               "/interview-prep/technical-questions"}

Given == {Undef, "given"}

PrepInputs(route) ==
    CASE route = "/interview-prep/questions" -> [category : Given]
      [] route = "/interview-prep/generate-email" -> [jobTitle : Given, companyName : Given]
      [] route = "/interview-prep/evaluate-answer" -> [question : Given, answer : Given]
      [] route = "/interview-prep/evaluate-star" ->
            [situation : Given, task : Given, action : Given, result : Given]
      [] route = "/interview-prep/technical-questions" -> [uid : {Undef, "u1", "u2"}]
      [] OTHER -> {[none |-> TRUE]}

\* The handler's check of its inputs: the 400 text, or <<>> when they pass.
PrepRejects(route, in) ==
    CASE route = "/interview-prep/questions" ->
            IF Falsy(in.category) THEN Text("Category is required (e.g., HR, Technical).")
            ELSE <<>>
      [] route = "/interview-prep/generate-email" ->
            IF Falsy(in.jobTitle) \/ Falsy(in.companyName)
            THEN Text("jobTitle and companyName are required.") ELSE <<>>
      [] route = "/interview-prep/evaluate-answer" ->
            IF Falsy(in.question) \/ Falsy(in.answer)
            THEN Text("Question and answer are required.") ELSE <<>>
      [] route = "/interview-prep/evaluate-star" ->
            IF Falsy(in.situation) \/ Falsy(in.task) \/ Falsy(in.action) \/ Falsy(in.result)
            THEN Text("All four STAR fields are required.") ELSE <<>>
      [] route = "/interview-prep/technical-questions" ->
            IF Falsy(in.uid) THEN Text("User ID (uid) is required.") ELSE <<>>
      [] OTHER -> <<>>

\* The routes that JSON.parse the content, and those that strip a fence first.
PrepParses == {"/interview-prep/questions", "/interview-prep/tips-list",
               "/interview-prep/evaluate-star", "/interview-prep/technical-questions"}

PrepStripsFence == {"/interview-prep/tips-list", "/interview-prep/evaluate-star",
                    "/interview-prep/technical-questions"}

\* The error text of the handler's catch block.
PrepFailedText(route) ==
    CASE route = "/interview-prep/questions" -> Text("Failed to generate questions.")
      [] route = "/interview-prep/daily-tip" -> Text("Failed to get daily tip.")
      [] route = "/interview-prep/generate-email" -> Text("Failed to generate email template.")
      [] route = "/interview-prep/evaluate-answer" -> Text("Failed to evaluate answer.")
      [] route = "/interview-prep/tips-list" -> Text("Failed to generate tips list.")
      [] route = "/interview-prep/evaluate-star" -> Text("Failed to evaluate STAR answer.")
      [] route = "/interview-prep/technical-questions" ->
            Text("Failed to generate technical questions.")

\* The binding the catch block logs before it responds, and the block that
\* declares it: a `let` of the try block is not in scope in the catch block.
CatchLogs(route) ==
    CASE route = "/interview-prep/tips-list" -> [name |-> "tipsJson", declaredIn |-> "try"]
      [] route = "/interview-prep/evaluate-star" ->
            [name |-> "feedbackJson", declaredIn |-> "try"]
      [] route = "/interview-prep/technical-questions" ->
            [name |-> "questionsJson", declaredIn |-> "try"]
      [] OTHER -> [name |-> "err", declaredIn |-> "catch"]

\* The catch block of a handler: reading a binding that is out of scope throws
\* a ReferenceError before res.status(500) is reached, and the handler ends
\* (its promise rejected) without having sent a response.
PrepCatch(rq) ==
    IF CatchLogs(rq.route).declaredIn = "try"
    THEN [rq EXCEPT !.pc = "done", !.resp = NoResp,
                    !.loc.rejected = <<"ReferenceError: ", CatchLogs(rq.route).name,
                                       " is not defined">>]
    ELSE [rq EXCEPT !.pc = "done", !.resp = JsonError(500, PrepFailedText(rq.route))]

\* A handler from its start to its first await: the profile read of
\* technical-questions, the model call of the others.
PrepReceive(r) ==
    /\ req[r].pc = "idle"
    /\ \E route \in PrepRoutes :
         \E in \in PrepInputs(route) :
            LET rq == [req[r] EXCEPT !.route = route, !.in = in]
            IN req' = [req EXCEPT ![r] =
                 IF PrepRejects(route, in) # <<>>
                 THEN [rq EXCEPT !.pc = "done", !.resp = JsonError(400, PrepRejects(route, in))]
                 ELSE IF route = "/interview-prep/technical-questions"
                 THEN [rq EXCEPT !.pc = "awaitPrefs", !.log = Append(@, ProfileRead(in.uid))]
                 ELSE [rq EXCEPT !.pc = "awaitModel",
                                 !.log = Append(@, ModelCall(FALSE, <<route>>))]]
    /\ UNCHANGED <<mod, heap, savedJobs, userStats, companyLogos, files>>

\* technical-questions: the profile read answered; defaults stand in for an
\* absent profile.
PrepPrefs(r) ==
    /\ req[r].route = "/interview-prep/technical-questions" /\ req[r].pc = "awaitPrefs"
    /\ \E readOk \in BOOLEAN :
         LET userPrefs == fetchUserPreferences(req[r].in.uid, readOk)
             jobRole == IF userPrefs.exists /\ ~Falsy(userPrefs.jobRole)
                        THEN userPrefs.jobRole ELSE "Software Engineer"
             skills == IF userPrefs.exists /\ ~Falsy(userPrefs.skills)
                       THEN userPrefs.skills ELSE "Data Structures and Algorithms"
         IN req' = [req EXCEPT ![r] =
              [@ EXCEPT !.pc = "awaitModel",
                        !.log = Append(Noting(@, ~readOk, "users.get"),
                                       ModelCall(FALSE, <<req[r].route, jobRole, skills>>))]]
    /\ UNCHANGED <<mod, heap, savedJobs, userStats, companyLogos, files>>

\* The model call of an interview-prep handler answered.
PrepReply(r) ==
    /\ req[r].route \in PrepRoutes /\ req[r].pc = "awaitModel"
    /\ \E reply \in ModelReplies :
         LET route == req[r].route
             result == simpleOpenAICall(reply)
             content == IF route \in PrepStripsFence THEN StripJsonFence(result.content)
                        ELSE result.content
             rq == [req[r] EXCEPT !.log = Noting(@, reply \in FailedReplies, "model"),
                                  !.loc = [reply |-> reply, rejected |-> <<>>]]
         IN req' = [req EXCEPT ![r] =
              IF result.threw \/ (route \in PrepParses /\ ~JsonParses(content))
              THEN PrepCatch(rq)
              ELSE [rq EXCEPT !.pc = "done", !.resp = Json(200, [content |-> content])]]
    /\ UNCHANGED <<mod, heap, savedJobs, userStats, companyLogos, files>>

(***************************************************************************)
(* The prep-data handlers: one Firestore call each (the documents under    *)
(* users/{uid}/interview_prep are not kept here, only the call's outcome). *)
(***************************************************************************)
DataRoutes == {"DELETE /users/:uid/prep-data", "POST /users/:uid/prep-data",
               "GET /users/:uid/prep-data"}

DataTypes == {Undef, "companyNote", "checklist"}

DataInputs == [dataType : DataTypes, dataId : Given, data : Given]

DataRejects(route, in) ==
    CASE route = "DELETE /users/:uid/prep-data" ->
            IF Falsy(in.dataType) \/ Falsy(in.dataId)
            THEN Text("uid, dataType, and dataId are required.") ELSE <<>>
      [] route = "POST /users/:uid/prep-data" ->
            IF Falsy(in.dataType) \/ Falsy(in.dataId) \/ Falsy(in.data)
            THEN Text("dataType, dataId, and data are required.") ELSE <<>>
      [] route = "GET /users/:uid/prep-data" ->
            IF Falsy(in.dataType) THEN Text("dataType is required.") ELSE <<>>

\* The error text of the catch block: a template around the request's dataType.
DataFailedText(route, dataType) ==
    CASE route = "DELETE /users/:uid/prep-data" -> <<"Could not delete ", dataType, " item.">>
      [] route = "POST /users/:uid/prep-data" -> <<"Could not save ", dataType, ".">>
      [] route = "GET /users/:uid/prep-data" -> <<"Could not fetch ", dataType, ".">>

DataDone(route, dataType) ==
    CASE route = "DELETE /users/:uid/prep-data" ->
            Json(200, [message |-> <<dataType, " item deleted.">>])
      [] route = "POST /users/:uid/prep-data" -> Json(201, [message |-> <<dataType, " saved.">>])
      [] route = "GET /users/:uid/prep-data" -> Json(200, [items |-> <<>>])

DataReceive(r) ==
    /\ req[r].pc = "idle"
    /\ \E route \in DataRoutes, in \in DataInputs :
         LET rq == [req[r] EXCEPT !.route = route, !.in = in]
         IN req' = [req EXCEPT ![r] =
              IF DataRejects(route, in) # <<>>
              THEN [rq EXCEPT !.pc = "done", !.resp = JsonError(400, DataRejects(route, in))]
              ELSE [rq EXCEPT !.pc = "awaitStore",
                              !.log = Append(@, [call |-> "interview_prep", route |-> route])]]
    /\ UNCHANGED <<mod, heap, savedJobs, userStats, companyLogos, files>>

DataReply(r) ==
    /\ req[r].route \in DataRoutes /\ req[r].pc = "awaitStore"
    /\ \E ok \in BOOLEAN :
         req' = [req EXCEPT ![r] =
            IF ok THEN Respond(r, DataDone(req[r].route, req[r].in.dataType))
            ELSE [@ EXCEPT !.pc = "done", !.log = Append(@, Failure("interview_prep")),
                           !.resp = JsonError(500, DataFailedText(req[r].route,
                                                                  req[r].in.dataType))]]
    /\ UNCHANGED <<mod, heap, savedJobs, userStats, companyLogos, files>>

(***************************************************************************)
(* The counseling handlers: one model call each, made with fetch.          *)
(***************************************************************************)
CounselRoutes == {"/counseling/custom-guide", "/counseling/get-specializations",
                  "/counseling/get-degrees"}

CounselInputs(route) ==
    CASE route = "/counseling/custom-guide" ->
            [fromCountry : Given, toCountry : Given, degree : Given, topics : Given]
      [] route = "/counseling/get-specializations" -> [degree : Given]
      [] OTHER -> {[none |-> TRUE]}

CounselRejects(route, in) ==
    CASE route = "/counseling/custom-guide" ->
            IF Falsy(in.fromCountry) \/ Falsy(in.toCountry) \/ Falsy(in.degree) \/ Falsy(in.topics)
            THEN Text("Missing required fields. Please provide fromCountry, toCountry, degree, and topics.")
            ELSE <<>>
      [] route = "/counseling/get-specializations" ->
            IF Falsy(in.degree) THEN Text("Degree is required.") ELSE <<>>
      [] OTHER -> <<>>

\* A mutant: a catch block with a fixed text.
GuideCatchFixedText(message) == JsonError(500, Text("Failed to generate custom guide."))

\* custom-guide: res.status(500).json({ error: error.message || "..." }), the
\* error being the one thrown by fetch or by one of the handler's two throws.
GuideCatch(message) ==
    JsonError(500, IF message = "" THEN Text("Failed to generate custom guide.")
                   ELSE Text(message))

\* custom-guide once the model call answered; e is the message of what fetch threw.
GuideReply(reply, e) ==
    IF reply = "throw" THEN GuideCatch(e)
    ELSE IF reply \in {"notok", "nocontent"} THEN GuideCatch("Failed to get guide from AI model.")
    ELSE IF ~JsonParses(StripJsonFence(reply))
    THEN GuideCatch("AI model returned an unparsable JSON structure.")
    ELSE Json(200, [content |-> "content", universities |-> <<>>])

\* get-specializations: every failure ends in the empty list, with status 200.
SpecializationsReply(reply) ==
    IF reply \in FailedReplies \/ ~JsonParses(reply) THEN Json(200, [specializations |-> <<>>])
    ELSE Json(200, [specializations |-> <<"Computer Science", "Data Science">>])

\* A mutant: get-degrees answering like get-specializations.
DegreesReplyEmptyList(reply) ==
    IF reply \in FailedReplies \/ ~JsonParses(reply) THEN Json(200, [degrees |-> <<>>])
    ELSE Json(200, [degrees |-> <<"Bachelor of Arts", "Bachelor of Science">>])

DegreesReply(reply) ==
    IF reply \in FailedReplies \/ ~JsonParses(reply)
    THEN JsonError(500, Text("Failed to fetch degree list."))
    ELSE Json(200, [degrees |-> <<"Bachelor of Arts", "Bachelor of Science">>])

CounselReceive(r) ==
    /\ req[r].pc = "idle"
    /\ \E route \in CounselRoutes :
         \E in \in CounselInputs(route) :
            LET rq == [req[r] EXCEPT !.route = route, !.in = in]
            IN req' = [req EXCEPT ![r] =
                 IF CounselRejects(route, in) # <<>>
                 THEN [rq EXCEPT !.pc = "done", !.resp = JsonError(400, CounselRejects(route, in))]
                 ELSE [rq EXCEPT !.pc = "awaitModel",
                                 !.log = Append(@, ModelCall(FALSE, <<route>>))]]
    /\ UNCHANGED <<mod, heap, savedJobs, userStats, companyLogos, files>>

CounselReply(r) ==
    /\ req[r].route \in CounselRoutes /\ req[r].pc = "awaitModel"
    /\ \E reply \in ModelReplies, e \in UnderlyingErrors :
         /\ reply # "throw" => e = ""
         /\ req' = [req EXCEPT ![r] =
              [@ EXCEPT !.pc = "done", !.loc = [reply |-> reply, thrown |-> e],
                        !.log = Noting(@, reply \in FailedReplies, "model"),
                        !.resp = CASE req[r].route = "/counseling/custom-guide" ->
                                        GuideReply(reply, e)
                                   [] req[r].route = "/counseling/get-specializations" ->
                                        SpecializationsReply(reply)
                                   [] req[r].route = "/counseling/get-degrees" ->
                                        DegreesReply(reply)]]
    /\ UNCHANGED <<mod, heap, savedJobs, userStats, companyLogos, files>>

(***************************************************************************)
(* GET /skills/analyze: the profile read, the model call for the required  *)
(* skills, then one model call per missing skill.  Skills are written as   *)
(* the lower-cased, trimmed entries the handler computes.                  *)
(***************************************************************************)
\* The strings the handler takes apart are written as their sequences of
\* characters.
Chars(str) ==
    IF str = "Go, SQL" THEN <<"G", "o", ",", " ", "S", "Q", "L">>
    ELSE <<>>

\* String.prototype.toLowerCase on a whole string
LowerCased(str) == [i \in 1..Len(str) |-> toLowerCase(str[i])]

\* \s
Whitespace == {" ", "\t", "\n"}

\* String.prototype.trim
trim(str) ==
    LET inked == {i \in 1..Len(str) : str[i] \notin Whitespace}
    IN IF inked = {} THEN <<>>
       ELSE SubSeq(str, CHOOSE i \in inked : \A j \in inked : i <= j,
                        CHOOSE i \in inked : \A j \in inked : j <= i)

\* String.prototype.split(",")
RECURSIVE split(_)
split(str) ==
    LET commas == {i \in 1..Len(str) : str[i] = ","}
    IN IF commas = {} THEN <<str>>
       ELSE LET i == CHOOSE c \in commas : \A d \in commas : c <= d
            IN <<SubSeq(str, 1, i - 1)>> \o split(SubSeq(str, i + 1, Len(str)))

\* .filter(Boolean) on a list of strings
filterBoolean(list) == SelectSeq(list, LAMBDA str : str # <<>>)

\* A mutant: the skills as the profile spells them.
userSkillsAsWritten(userPrefs) ==
    LET entries == split(IF Falsy(userPrefs.skills) THEN <<>> ELSE Chars(userPrefs.skills))
    IN filterBoolean([i \in 1..Len(entries) |-> trim(entries[i])])

\* (userPrefs.skills || "").toLowerCase().split(",").map(trim).filter(Boolean)
userSkills(userPrefs) ==
    LET entries == split(LowerCased(IF Falsy(userPrefs.skills) THEN <<>>
                                    ELSE Chars(userPrefs.skills)))
    IN filterBoolean([i \in 1..Len(entries) |-> trim(entries[i])])

\* The contents the model answers the skills question with; <<>> is a reply
\* without content.
RequiredSkillsTexts == {<<>>, <<"G", "o", ",", "R", "u", "s", "t">>,
                        <<"r", "u", "s", "t", ",", " ", ",", "R", "u", "s", "t">>,
                        <<" ", "S", "Q", "L", " ", ",", "g", "o">>}

\* requiredSkillsText.split(",").map((s) => s.trim().toLowerCase()).filter(Boolean)
requiredSkillsOf(requiredSkillsText) ==
    LET entries == split(requiredSkillsText)
    IN filterBoolean([i \in 1..Len(entries) |-> LowerCased(trim(entries[i]))])

RECURSIVE Filter(_, _)
Filter(list, keep) ==
    IF list = <<>> THEN <<>>
    ELSE (IF Head(list) \in keep THEN <<Head(list)>> ELSE <<>>) \o Filter(Tail(list), keep)

\* requiredSkills.filter((s) => !userSkills.includes(s))
missingSkills(requiredSkills, skills) ==
    Filter(requiredSkills, Range(requiredSkills) \ Range(skills))

\* The contents of the replies to a resource question.
ResourceContents == {<<>>, <<" ">>, <<"n", "/", "a">>,
                     <<"a", ".", "i", "o", "/", "x">>,
                     <<"'", "h", "t", "t", "p", "s", ":", "/", "/", "a", ".", "i", "o", "'">>,
                     <<"h", "t", "t", "p", ":", "/", "/", "a", ".", "i", "o">>}

ResourceReplies == {"throw", "content"}

startsWith(str, prefix) ==
    Len(str) >= Len(prefix) /\ SubSeq(str, 1, Len(prefix)) = prefix

\* The URL stored for a skill, or <<>> when the reply is skipped:
\* trimmed, quotes and whitespace removed (the backticks the code removes as
\* well occur in no content here), and the https protocol put before a URL
\* with a dot that has none.
resourceUrl(content) ==
    LET cleaned == SelectSeq(trim(content), LAMBDA c : c \notin {"\"", "'"} \cup Whitespace)
        url == IF ~startsWith(cleaned, <<"h", "t", "t", "p", ":", "/", "/">>) /\ ~startsWith(cleaned, <<"h", "t", "t", "p", "s", ":", "/", "/">>)
               THEN <<"h", "t", "t", "p", "s", ":", "/", "/">> \o cleaned
               ELSE cleaned
    IN IF cleaned # <<>> /\ "." \in Range(cleaned) /\ startsWith(url, <<"h", "t", "t", "p">>)
       THEN url
       ELSE <<>>

\* learningResources[skill] = url on the object written as its list of entries
assign(object, skill, url) ==
    IF \E n \in 1..Len(object) : object[n].skill = skill
    THEN [n \in 1..Len(object) |->
            IF object[n].skill = skill THEN [skill |-> skill, url |-> url] ELSE object[n]]
    ELSE Append(object, [skill |-> skill, url |-> url])

SkillsJson(rq) ==
    Json(200, [jobRole |-> rq.loc.jobRole, requiredSkills |-> rq.loc.requiredSkills,
               missingSkills |-> rq.loc.missingSkills,
               learningResources |-> rq.loc.learningResources])

\* The loop over missingSkills at entry i: the next model call, or the response.
SkillsLoop(rq, i) ==
    IF i > Len(rq.loc.missingSkills)
    THEN [rq EXCEPT !.pc = "done", !.loc.i = i, !.resp = SkillsJson(rq)]
    ELSE [rq EXCEPT !.pc = "awaitResource", !.loc.i = i,
                    !.log = Append(@, ModelCall(FALSE, <<"resource", rq.loc.missingSkills[i]>>))]

SkillsReceive(r) ==
    /\ req[r].pc = "idle"
    /\ \E uid \in {Undef} \cup ProfileIds :
         LET rq == [req[r] EXCEPT !.route = "/skills/analyze", !.in = [uid |-> uid]]
         IN req' = [req EXCEPT ![r] =
              IF Falsy(uid)
              THEN [rq EXCEPT !.pc = "done", !.resp = JsonError(400, Text("User ID required."))]
              ELSE [rq EXCEPT !.pc = "awaitPrefs", !.log = Append(@, ProfileRead(uid))]]
    /\ UNCHANGED <<mod, heap, savedJobs, userStats, companyLogos, files>>

SkillsPrefs(r) ==
    /\ req[r].route = "/skills/analyze" /\ req[r].pc = "awaitPrefs"
    /\ \E readOk \in BOOLEAN :
         LET userPrefs == fetchUserPreferences(req[r].in.uid, readOk)
             rq == [req[r] EXCEPT !.log = Noting(@, ~readOk, "users.get")]
         IN req' = [req EXCEPT ![r] =
              IF ~userPrefs.exists \/ Falsy(userPrefs.jobRole)
              THEN [rq EXCEPT !.pc = "done",
                              !.resp = JsonError(404, Text("User profile or jobRole missing."))]
              ELSE [rq EXCEPT !.pc = "awaitModel",
                      !.loc = [jobRole |-> userPrefs.jobRole, userSkills |-> userSkills(userPrefs),
                               requiredSkills |-> <<>>, missingSkills |-> <<>>,
                               learningResources |-> <<>>, i |-> 0],
                      !.log = Append(@, ModelCall(FALSE, <<"skills", userPrefs.jobRole>>))]]
    /\ UNCHANGED <<mod, heap, savedJobs, userStats, companyLogos, files>>

\* The skills call answered: a reply without content counts as no skills.
SkillsRequired(r) ==
    /\ req[r].route = "/skills/analyze" /\ req[r].pc = "awaitModel"
    /\ \E reply \in {"throw", "notok", "content"}, requiredSkillsText \in RequiredSkillsTexts :
         LET requiredSkills == IF reply = "content" THEN requiredSkillsOf(requiredSkillsText)
                               ELSE <<>>
             rq == [req[r] EXCEPT !.log = Noting(@, reply = "notok"
                                                    \/ (reply = "content" /\ requiredSkillsText = <<>>),
                                                 "skills model"),
                      !.loc.requiredSkills = requiredSkills,
                      !.loc.missingSkills = missingSkills(requiredSkills, req[r].loc.userSkills)]
         IN req' = [req EXCEPT ![r] =
              IF reply = "throw"
              THEN [req[r] EXCEPT !.pc = "done", !.log = Append(@, Failure("model")),
                                  !.resp = JsonError(500, Text("Skill analysis failed."))]
              ELSE SkillsLoop(rq, 1)]
    /\ UNCHANGED <<mod, heap, savedJobs, userStats, companyLogos, files>>

\* The resource call of entry i answered: a failure only skips the entry.
SkillsResource(r) ==
    /\ req[r].route = "/skills/analyze" /\ req[r].pc = "awaitResource"
    /\ \E reply \in ResourceReplies, content \in ResourceContents :
         LET i == req[r].loc.i
             skill == req[r].loc.missingSkills[i]
             url == IF reply = "throw" THEN <<>> ELSE resourceUrl(content)
             rq == [req[r] EXCEPT
                      !.log = Noting(@, reply = "throw" \/ content = <<>>, "resource model"),
                      !.loc.learningResources =
                          IF url = <<>> THEN @ ELSE assign(@, skill, url)]
         IN req' = [req EXCEPT ![r] = SkillsLoop(rq, i + 1)]
    /\ UNCHANGED <<mod, heap, savedJobs, userStats, companyLogos, files>>

(***************************************************************************)
(* The /chat handlers of the earlier revisions, as far as their responses  *)
(* go.  Each revision is a record of what its handler does:                *)
(*   invalid   the answer to a request without the input it needs (uid,    *)
(*             message, or an array history): a 400, "served" when the     *)
(*             handler goes on, "rejected" when it throws outside its try; *)
(*   notOk     an error status of the model API: read like a reply without *)
(*             choices, or thrown by callOpenAI;                           *)
(*   first, second   a reply without choices: "throws" (into the catch     *)
(*             block), or the response the handler sends for it;           *)
(*   tools     the function names answered with a second call ("any": all  *)
(*             of them), "none" when the request offers no tools;          *)
(*   userInfo  whether the handler has the get_user_info tool;             *)
(*   catch     the response of the catch block.                            *)
(***************************************************************************)
Served == [status |-> 0, kind |-> "served", body |-> [none |-> TRUE]]

Rejected == [status |-> 0, kind |-> "rejected", body |-> [none |-> TRUE]]

Throws == [status |-> 0, kind |-> "throws", body |-> [none |-> TRUE]]

Reply(text) == Json(200, [reply |-> Text(text)])

Rev_server_205 ==
    [rev |-> "/chat (server.js:205)", userInfo |-> TRUE, invalid |-> JsonError(400, Text("User ID is missing.")),
     notOk |-> "no choices", first |-> Throws, second |-> Throws, tools |-> "any", awaitsTool |-> TRUE,
     catch |-> JsonError(500, Text("An error occurred."))]

Rev_part_000 ==
    [rev |-> "/chat (part_000)", userInfo |-> TRUE,
     invalid |-> JsonError(400, Text("User ID (uid) is missing for personalization.")),
     notOk |-> "no choices", first |-> Throws, second |-> Throws, tools |-> "any", awaitsTool |-> TRUE,
     catch |-> JsonError(500, Text("An error occurred while processing your request."))]

Rev_part_001 ==
    [rev |-> "/chat (part_001)", userInfo |-> FALSE, invalid |-> JsonError(400, Text("User ID (uid) is missing.")),
     notOk |-> "no choices", first |-> Throws, second |-> Throws, tools |-> "any", awaitsTool |-> TRUE,
     catch |-> JsonError(500, Text("An error occurred."))]

Rev_part_002 ==
    [rev |-> "/chat (part_002)", userInfo |-> TRUE, invalid |-> JsonError(400, Text("User ID required.")),
     notOk |-> "no choices", first |-> Throws, second |-> Throws, tools |-> "any", awaitsTool |-> TRUE,
     catch |-> JsonError(500, Text("Server error"))]

Rev_part_003_83 ==
    [rev |-> "/chat (part_003:83)", userInfo |-> FALSE, invalid |-> Rejected,
     notOk |-> "no choices", first |-> Throws, second |-> Throws, tools |-> "any", awaitsTool |-> TRUE,
     catch |-> PlainText(500, Text("Error connecting to OpenAI API"))]

Rev_part_003_183 ==
    [rev |-> "/chat (part_003:183)", userInfo |-> FALSE, invalid |-> Served,
     notOk |-> "no choices", first |-> Throws, second |-> Throws, tools |-> "any", awaitsTool |-> FALSE,
     catch |-> PlainText(500, Text("Error connecting to OpenAI API"))]

Rev_part_004 ==
    [rev |-> "/chat (part_004)", userInfo |-> FALSE, invalid |-> Rejected,
     notOk |-> "no choices", first |-> Reply("No response"), second |-> Reply("No reply"),
     tools |-> "any", awaitsTool |-> TRUE, catch |-> PlainText(500, Text("Error connecting to OpenAI API"))]

Rev_part_005 ==
    [rev |-> "/chat (part_005)", userInfo |-> FALSE, invalid |-> JsonError(400, Text("Message content is missing.")),
     notOk |-> "no choices",
     first |-> JsonError(500, Text("Failed to get a valid response from OpenAI.")),
     second |-> Throws, tools |-> "none", awaitsTool |-> FALSE,
     catch |-> PlainText(500, Text("Error connecting to OpenAI API"))]

Rev_chatController ==
    [rev |-> "/api/chat (chatController)", userInfo |-> FALSE, invalid |-> JsonError(400, Text("History must be an array.")),
     notOk |-> "throws", first |-> Reply("I'm not sure how to respond to that."),
     second |-> Reply("No reply"), tools |-> "get_jobs", awaitsTool |-> TRUE,
     catch |-> JsonError(500, Text("An internal server error occurred. Please try again later."))]

EarlyRevisions == {Rev_server_205, Rev_part_000, Rev_part_001, Rev_part_002, Rev_part_003_83,
                   Rev_part_003_183, Rev_part_004, Rev_part_005, Rev_chatController}

EarlyRoutes == {v.rev : v \in EarlyRevisions}

IsEarly(rq) == rq.route \in EarlyRoutes

RevOf(rq) == CHOOSE v \in EarlyRevisions : v.rev = rq.route

EarlyReplies == {"throw", "notok", "nochoices", "content", "tool_call", "other tool_call",
                 "get_user_info", "tool_call with bad arguments"}

\* What the awaited tool is called with: fetchUserPreferences(uid) with the
\* uid of the request body, the other tools with the model's arguments.
EarlyToolTarget(v, reply, uid) ==
    IF reply = "get_user_info" /\ v.userInfo THEN uid ELSE "model arguments"

\* The tool_calls of a first reply: one entry or more, each with its id.
EarlyToolCalls(max) == {[i \in 1..n |-> [id |-> CallId(i)]] : n \in 1..max}

\* [...messages]: the messages of the first call, which the handlers build
\* from the request alone.
PriorMessages(route) == <<[role |-> "prior", content |-> <<route>>]>>

\* [...messages, message, {tool_call_id: toolCall.id, role: "tool", ...}] with
\* toolCall = message.tool_calls[0].
EarlySecondMessages(route, calls) ==
    PriorMessages(route) \o <<[role |-> "assistant", tool_calls |-> calls],
                              [role |-> "tool", tool_call_id |-> calls[1].id]>>

\* What the handler does with a reply that is not an answer: v.first or v.second.
EarlyNoAnswer(rq, reply, onNoChoices) ==
    LET v == RevOf(rq)
        caught == [rq EXCEPT !.pc = "done", !.resp = v.catch]
    IN IF reply = "throw" \/ (reply = "notok" /\ v.notOk = "throws") THEN caught
       ELSE IF onNoChoices.kind = "throws" THEN caught
       ELSE [rq EXCEPT !.pc = "done", !.resp = onNoChoices]

EarlyChatReceive(r) ==
    /\ req[r].pc = "idle"
    /\ \E v \in EarlyRevisions, valid \in BOOLEAN :
         LET rq == [req[r] EXCEPT !.route = v.rev, !.in = [valid |-> valid, uid |-> "u1"]]
         IN req' = [req EXCEPT ![r] =
              IF ~valid /\ v.invalid.kind = "rejected"
              THEN [rq EXCEPT !.pc = "done", !.loc = [rejected |-> <<"TypeError">>]]
              ELSE IF ~valid /\ v.invalid.kind # "served"
              THEN [rq EXCEPT !.pc = "done", !.resp = v.invalid]
              ELSE [rq EXCEPT !.pc = "awaitFirst",
                              !.log = Append(@, ModelCall(v.tools # "none",
                                                          PriorMessages(v.rev)))]]
    /\ UNCHANGED <<mod, heap, savedJobs, userStats, companyLogos, files>>

EarlyChatFirst(r) ==
    /\ req[r].pc = "awaitFirst" /\ IsEarly(req[r])
    /\ \E reply \in EarlyReplies, calls \in EarlyToolCalls(MaxToolCalls) :
         LET v == RevOf(req[r])
             rq == [req[r] EXCEPT !.log = Noting(@, reply \in {"throw", "notok", "nochoices"},
                                                 "model"),
                                  !.loc = IF reply \in {"tool_call", "other tool_call",
                                                       "get_user_info"}
                                          THEN [tool_calls |-> calls] ELSE @]
             unknown == reply = "other tool_call" \/ (reply = "get_user_info" /\ ~v.userInfo)
         IN /\ v.tools = "none" => reply \in {"throw", "notok", "nochoices", "content"}
            /\ req' = [req EXCEPT ![r] =
                 IF reply \in {"throw", "notok", "nochoices"} THEN EarlyNoAnswer(rq, reply, v.first)
                 ELSE IF reply = "content" THEN [rq EXCEPT !.pc = "done", !.resp = Reply("answer")]
                 ELSE IF reply = "tool_call with bad arguments"
                 THEN [rq EXCEPT !.pc = "done", !.resp = v.catch]
                 ELSE IF unknown /\ v.tools = "get_jobs"
                 THEN [rq EXCEPT !.pc = "done"]
                 ELSE IF v.awaitsTool
                 THEN [rq EXCEPT !.pc = "awaitTool",
                         !.log = Append(@, ToolRun([name |-> IF unknown THEN "other tool_call" ELSE reply,
                                                    id |-> calls[1].id],
                                                   EarlyToolTarget(v, reply, rq.in.uid)))]
                 ELSE [rq EXCEPT !.pc = "awaitSecond",
                                 !.log = Append(@, ModelCall(FALSE,
                                                   EarlySecondMessages(v.rev, calls)))]]
    /\ UNCHANGED <<mod, heap, savedJobs, userStats, companyLogos, files>>

\* The tool returned: each revision's tool turns its own failure into a result.
EarlyChatTool(r) ==
    /\ req[r].pc = "awaitTool" /\ IsEarly(req[r])
    /\ \E ok \in BOOLEAN :
         req' = [req EXCEPT ![r] =
            [@ EXCEPT !.pc = "awaitSecond",
                      !.log = Append(Noting(@, ~ok, "tool"),
                                     ModelCall(FALSE, EarlySecondMessages(req[r].route,
                                                          req[r].loc.tool_calls)))]]
    /\ UNCHANGED <<mod, heap, savedJobs, userStats, companyLogos, files>>

EarlyChatSecond(r) ==
    /\ req[r].pc = "awaitSecond" /\ IsEarly(req[r])
    /\ \E reply \in {"throw", "notok", "nochoices", "content"} :
         LET rq == [req[r] EXCEPT !.log = Noting(@, reply # "content", "model")]
         IN req' = [req EXCEPT ![r] =
              IF reply = "content" THEN [rq EXCEPT !.pc = "done", !.resp = Reply("final answer")]
              ELSE EarlyNoAnswer(rq, reply, RevOf(rq).second)]
    /\ UNCHANGED <<mod, heap, savedJobs, userStats, companyLogos, files>>

(***************************************************************************)
(* One request to any handler: the handlers of the final server.js and the *)
(* /chat handlers of the earlier revisions.                                *)
(***************************************************************************)
FinalNext ==
    \/ \E r \in {"r1"} : \/ ChatReceive(r, Histories) \/ ChatPrefs(r)
                         \/ ChatFirst(r, MaxToolCalls) \/ ChatTool(r) \/ ChatSecond(r)
    \/ \E r \in {"r1"} : \/ SttReceive(r) \/ SttReply(r) \/ ResumeReceive(r) \/ ResumeOcr(r)
                         \/ ResumeFeedback(r) \/ ResumeUnlinked(r)
    \/ \E r \in {"r1"} : \/ IncrementReceive(r) \/ IncrementUpdate(r) \/ IncrementSet(r)
                         \/ GetStatsReceive(r) \/ GetStatsRead(r) \/ GetStatsSet(r)
    \/ \E r \in {"r1"} : JobsReceive(r) \/ JobsPrefs(r) \/ JobsSearch(r, MaxJobsAmongAll)
    \/ \E r \in {"r1"}, i \in 1..MaxJobsReturned : LogoGet(r, i)
    \/ LogoWriteSettle
    \/ \E r \in {"r1"} : SavedReceive(r) \/ SavedStore(r)
    \/ \E r \in {"r1"} : \/ PrepReceive(r) \/ PrepPrefs(r) \/ PrepReply(r)
                         \/ DataReceive(r) \/ DataReply(r)
                         \/ CounselReceive(r) \/ CounselReply(r)
    \/ \E r \in {"r1"} : \/ SkillsReceive(r) \/ SkillsPrefs(r) \/ SkillsRequired(r)
                         \/ SkillsResource(r)

EarlyNext ==
    \E r \in {"r1"} : \/ EarlyChatReceive(r) \/ EarlyChatFirst(r)
                      \/ EarlyChatTool(r) \/ EarlyChatSecond(r)

HandlersNext == FinalNext \/ EarlyNext

SpecHandlers == Init /\ [][HandlersNext]_vars

(***************************************************************************)
(* Failures and the responses that follow them.                            *)
(***************************************************************************)
\* The external calls of request r that failed.
FailuresOf(r) ==
    {req[r].log[n].of : n \in {m \in 1..Len(req[r].log) : req[r].log[m].call = "failure"}}

\* Answered (or ended) requests to the final server.js.
FinalDone == {r \in Slots : req[r].pc = "done" /\ ~IsEarly(req[r])}

Absorbed(route, of) ==
    \/ of \in {"users.get", "jsearch", "company_logos.get", "skills model", "resource model",
               "user_stats.update NOT_FOUND"}
    \/ route = "/counseling/get-specializations" /\ of = "model"

\* The handlers whose catch block throws before it responds.
CatchThrows == {route \in PrepRoutes : CatchLogs(route).declaredIn = "try"}

LeaksError(text) == \E i \in 1..Len(text) : text[i] \in UnderlyingErrors \ {""}

\* Requests answered with an error status after an external call failed.
ErrorAfterFailure ==
    {r \in Slots : req[r].pc = "done" /\ FailuresOf(r) # {} /\ req[r].resp.status >= 400}

PlainTextChat == {"/chat (part_003:83)", "/chat (part_003:183)", "/chat (part_004)",
                  "/chat (part_005)"}

\* The handlers that send the message of the caught error.
SendsErrorMessage == {"/analyze-resume", "/counseling/custom-guide"}

C5_FailureAnswered500 ==
    \A r \in Slots :
        (/\ req[r].route \in {"/interview-prep/tips-list", "/interview-prep/evaluate-star",
                              "/interview-prep/technical-questions"}
         /\ req[r].pc = "done"
         /\ "reply" \in DOMAIN req[r].loc
         /\ req[r].loc.reply \in FailedReplies \cup {"text"}) =>
            req[r].resp = JsonError(500, PrepFailedText(req[r].route))


(***************************************************************************)
(* External calls in flight.                                               *)
(***************************************************************************)
\* Every handler with the job lists of SpecJobs: two logo lookups can overlap.
LinearNext == FinalNext \/ \E r \in {"r1"} : JobsSearch(r, MaxJobs)

SpecLinear == InitChat /\ [][LinearNext]_vars

\* The positions at which a handler waits for the one call it awaits.
SingleAwaits ==
    {"awaitPrefs", "awaitFirst", "awaitTool", "awaitSecond", "awaitStt", "awaitOcr",
     "awaitFeedback", "awaitUpdate", "awaitSet", "awaitGet", "awaitSearch", "awaitStore",
     "awaitModel", "awaitResource"}

\* The lookups of request r whose cache read has not answered.
LookupsInFlight(r) ==
    IF req[r].route = "/jobs" /\ "tasks" \in DOMAIN req[r].loc
    THEN {i \in 1..Len(req[r].loc.tasks) : req[r].loc.tasks[i].pc = "awaitGet"}
    ELSE {}

\* The cache writes of request r that Firestore has not settled.
WritesInFlight(r) == IF req[r].route = "/jobs" THEN companyLogos.writes ELSE {}

\* The number of external calls of request r in flight.
InFlight(r) ==
    (IF req[r].pc \in SingleAwaits THEN 1 ELSE 0)
    + Cardinality(LookupsInFlight(r)) + Cardinality(WritesInFlight(r))

Serving == {r \in Slots : req[r].pc \notin {"idle", "done"}}

\* C11 as stated: while a request is being served, at most one of its
\* external calls is in flight.
C11_AtMostOneInFlight == \A r \in Serving : InFlight(r) <= 1

\* The first position of a call of lookup i in a log, 0 when absent.
FirstOf(log, call, i) ==
    LET at == {n \in 1..Len(log) : log[n].call = call /\ log[n].task = i}
    IN IF at = {} THEN 0 ELSE CHOOSE n \in at : \A m \in at : n <= m

\* /chat inside its find_jobs tool: findJobs runs as it does in GET /jobs.
InFindJobsTool(r) ==
    /\ req[r].route = "/chat" /\ req[r].pc = "awaitTool"
    /\ req[r].loc.tool_calls[req[r].loc.i].name = "find_jobs"

\* C11: a handler has exactly one external call in flight while it waits,
\* except inside findJobs once the job search has answered: there the cache
\* reads of all lookups (at most 7) are issued together, before any of them
\* answers, and a lookup that missed leaves an unawaited cache write in flight
\* while the other lookups go on; each lookup has at most one call in flight.
C11_LinearExceptLogoLookups ==
    \A r \in Serving :
        IF req[r].pc = "awaitLogos"
        THEN LET tasks == req[r].loc.tasks
                 log == req[r].log
                 gets == {FirstOf(log, "company_logos.get", i) : i \in LookupsInFlight(r)}
                 answers == {n \in 1..Len(log) :
                               \/ log[n].call = "company_logos.set"
                               \/ log[n] = Failure("company_logos.get")}
             IN /\ LookupsInFlight(r) # {}
                /\ InFlight(r) <= Len(tasks) /\ Len(tasks) <= MaxJobsReturned
                /\ 0 \notin gets
                /\ \A g \in gets, a \in answers : g < a
        ELSE InFindJobsTool(r) \/ InFlight(r) = 1

\* C11 witness: two cache reads of one request in flight at once.
C11_Witness ==
    \E r \in Serving : req[r].pc = "awaitLogos" /\ Cardinality(LookupsInFlight(r)) = 2


(***************************************************************************)
(* The messages of the second model call of the final /chat.               *)
(***************************************************************************)
\* The /chat requests that made their second model call.
SecondCallMade == {r \in Slots : req[r].route = "/chat" /\ Len(ModelCallsOf(r)) = 2}

\* The items of a history the filter keeps, as positions in the history.
KeptPositions(history) ==
    IF history.isArray
    THEN {n \in 1..Len(history.items) :
            /\ ~history.items[n].null
            /\ ~Falsy(history.items[n].message) \/ ~Falsy(history.items[n].text)}
    ELSE {}

\* C12: the messages of the second model call are the system prompt, the
\* transformed history in its original order, the current user message, the
\* assistant message holding the tool_calls, then one tool message per entry
\* of tool_calls in the same order, each with that entry's id as tool_call_id,
\* and nothing else.
C12_SecondCallMessages ==
    \A r \in SecondCallMade :
        LET msgs == ModelCallsOf(r)[2].messages
            history == req[r].in.history
            kept == KeptPositions(history)
            n == Cardinality(kept)
            calls == req[r].loc.tool_calls
            \* the position in the history of the k-th kept item
            at(k) == CHOOSE p \in kept : Cardinality({q \in kept : q <= p}) = k
        IN /\ Len(msgs) = n + 3 + Len(calls)
           /\ msgs[1].role = "system"
           /\ msgs[1].content = systemPrompt(req[r].loc.detectedLanguage)
           /\ \A k \in 1..n :
                /\ msgs[1 + k].role \in {"user", "assistant"}
                /\ msgs[1 + k].content \in {Text(history.items[at(k)].message),
                                            Text(history.items[at(k)].text)}
           /\ msgs[n + 2] = [role |-> "user", content |-> Text(req[r].in.message)]
           /\ msgs[n + 3] = [role |-> "assistant", tool_calls |-> calls]
           /\ \A i \in 1..Len(calls) :
                /\ msgs[n + 3 + i].role = "tool"
                /\ msgs[n + 3 + i].tool_call_id = calls[i].id
                /\ msgs[n + 3 + i].name = calls[i].name

\* C12 witness: a second call after two tool_calls, with a history of which
\* two items were kept.
C12_Witness ==
    \E r \in SecondCallMade :
        /\ Len(req[r].loc.tool_calls) = 2
        /\ Cardinality(KeptPositions(req[r].in.history)) = 2
        /\ req[r].loc.tool_calls[1].name = "delete_account"
        /\ req[r].loc.tool_calls[2].name = "find_jobs"


(***************************************************************************)
(* The second model request of the /chat revisions that answer only        *)
(* tool_calls[0].                                                          *)
(***************************************************************************)
AnswersFirstToolCall ==
    {Rev_server_205.rev, Rev_part_000.rev, Rev_part_001.rev, Rev_part_002.rev,
     Rev_chatController.rev}

\* C13: in the revisions that answer only tool_calls[0], the second model
\* request holds a tool message for every tool_call id of the assistant
\* message it forwards.
C13_EveryToolCallAnswered ==
    \A r \in Slots :
        (req[r].route \in AnswersFirstToolCall /\ Len(ModelCallsOf(r)) = 2) =>
            LET msgs == ModelCallsOf(r)[2].messages
                issued == UNION {{msgs[n].tool_calls[i].id : i \in 1..Len(msgs[n].tool_calls)} :
                                   n \in {m \in 1..Len(msgs) : msgs[m].role = "assistant"}}
                answered == {msgs[n].tool_call_id :
                               n \in {m \in 1..Len(msgs) : msgs[m].role = "tool"}}
            IN issued \subseteq answered


\* C14: handleChatRequest sends a response for every request it has finished
\* with: the 400, a JSON reply, or the centralized handler's 500.
C14_AlwaysResponds ==
    \A r \in Slots :
        (req[r].route = Rev_chatController.rev /\ req[r].pc = "done") =>
            \/ req[r].resp = Rev_chatController.invalid
            \/ req[r].resp = Rev_chatController.catch
            \/ req[r].resp.status = 200 /\ DOMAIN req[r].resp.body = {"reply"}


(***************************************************************************)
(* Validation and reply checks of the final /chat.                         *)
(***************************************************************************)
\* The final /chat requests whose body lacks a uid or a usable message.
InvalidChat ==
    {r \in Slots : /\ req[r].route = "/chat"
                   /\ \/ req[r].in.uid \in {Undef, ""}
                      \/ req[r].in.message \in {Undef, "", NotAString, Blank}}

\* C15: a /chat request with a missing uid, or with a message that is
\* missing, not a string or blank, is answered with 400 and makes no external
\* call: no Firestore read, no model call, no job search.
C15_InvalidChatIs400 ==
    \A r \in InvalidChat :
        /\ req[r].pc = "done"
        /\ req[r].resp.status = 400 /\ req[r].resp.kind = "json"
        /\ req[r].resp.body.error =
             IF req[r].in.uid \in {Undef, ""} THEN Text("User ID is missing.")
             ELSE Text("Message is empty.")
        /\ req[r].log = <<>>

\* C15 witness: a request with a uid and a message that is not a string,
\* answered 400.
C15_Witness ==
    \E r \in InvalidChat :
        /\ req[r].in.uid = "u1" /\ req[r].in.message = NotAString
        /\ req[r].resp = JsonError(400, Text("Message is empty."))


\* The final /chat requests that got their first reply.
FirstReplied == {r \in Slots : req[r].route = "/chat" /\ "first" \in DOMAIN req[r].loc
                               /\ req[r].loc.first # "pending"}

\* C16: a first reply without choices ends the request with 500, no tool run
\* and no second model call; a second reply without choices ends it with 500
\* after the tools have run; a tool_call naming an unknown function does not
\* fail the request: its tool message holds {error: "Unknown function
\* requested."} and the second model call follows.
C16_ReplyChecks ==
    \A r \in FirstReplied :
        LET calls == req[r].loc.tool_calls
            log == req[r].log
            known == KnownCalls(calls)
        IN /\ req[r].loc.first = "nochoices" =>
                /\ req[r].pc = "done"
                /\ req[r].resp = JsonError(500, Text("Invalid response from language model."))
                /\ Len(ToolRunsOf(r)) = 0 /\ Len(ModelCallsOf(r)) = 1
           /\ (req[r].pc = "done" /\ Len(ModelCallsOf(r)) = 2 /\ log[Len(log)] = Failure("model")) =>
                /\ req[r].resp.status = 500
                /\ Len(ToolRunsOf(r)) = Len(known)
                /\ \A n \in 1..Len(log) :
                     log[n].call = "tool" => n < PositionOf(log, "model", 2)
           /\ req[r].resp = JsonError(500, Text("Failed to generate final response.")) =>
                Len(ModelCallsOf(r)) = 2 /\ log[Len(log)] = Failure("model")
           /\ req[r].loc.first = "tool_calls" =>
                /\ req[r].pc \in {"awaitTool", "awaitSecond", "done"}
                /\ req[r].pc # "awaitTool" => Len(ModelCallsOf(r)) = 2
                /\ known = <<>> => Len(ToolRunsOf(r)) = 0 /\ Len(ModelCallsOf(r)) = 2
                /\ Len(ModelCallsOf(r)) = 2 =>
                     LET msgs == ModelCallsOf(r)[2].messages
                         base == Len(msgs) - Len(calls)
                     IN \A i \in 1..Len(calls) :
                          calls[i].name \notin {"find_jobs", "get_user_info"} =>
                              msgs[base + i].content = <<"error", "Unknown function requested.">>

\* C16 witness: a request whose only tool_call named an unknown function and
\* whose second reply had no choices.
C16_Witness ==
    \E r \in FirstReplied :
        /\ Len(req[r].loc.tool_calls) = 1 /\ req[r].loc.tool_calls[1].name = "delete_account"
        /\ req[r].resp = JsonError(500, Text("Failed to generate final response."))


(***************************************************************************)
(* The profile the get_user_info tool reads.                               *)
(***************************************************************************)
\* The users documents request r read for a get_user_info tool call.
UserInfoReads(r) ==
    {req[r].log[n].target :
        n \in {m \in 1..Len(req[r].log) : /\ req[r].log[m].call = "tool"
                                          /\ req[r].log[m].name = "get_user_info"}}

\* C17: in every /chat revision, the profile fetched for a get_user_info tool
\* call is the document of the uid of the request body, whatever the
\* arguments of the tool call; in the final handler the tool message holds
\* that document (or null).  So requests that differ only in the model's
\* arguments read the same document.
C17_UserInfoOfRequester ==
    \A r \in Slots :
        /\ \A doc \in UserInfoReads(r) : doc = req[r].in.uid
        /\ (req[r].route = "/chat" /\ Len(ModelCallsOf(r)) = 2) =>
              LET msgs == ModelCallsOf(r)[2].messages
              IN \A n \in 1..Len(msgs) :
                    (msgs[n].role = "tool" /\ msgs[n].name = "get_user_info") =>
                        msgs[n].content \in {ProfileJson(Null),
                                             ProfileJson(Profiles[req[r].in.uid])}

\* C17 witness: a final /chat request of u1 that ran get_user_info, called by
\* the model with the uid of another user, and made its second call.
C17_Witness ==
    \E r \in Slots :
        /\ req[r].route = "/chat" /\ req[r].in.uid = "u1" /\ Len(ModelCallsOf(r)) = 2
        /\ UserInfoReads(r) = {"u1"}
        /\ \E i \in 1..Len(req[r].loc.tool_calls) :
             /\ req[r].loc.tool_calls[i].name = "get_user_info"
             /\ ParseArgs(req[r].loc.tool_calls[i].arguments).uid = "u2"


(***************************************************************************)
(* What findJobs returns, seen through GET /jobs, which sends it as is.    *)
(***************************************************************************)
\* The GET /jobs requests that entered findJobs.
InFindJobs == {r \in Slots : req[r].route = "/jobs" /\ "query" \in DOMAIN req[r].loc}

\* C18: findJobs never throws and returns a list of at most 7 job records:
\* the empty list, without a call of the job-search API, when the API key is
\* unset or the query is missing or blank; the empty list when the call fails
\* or brings no data or when the processing of one of the first 7 jobs fails;
\* else one record per job of the first 7.
C18_FindJobsReturnsList ==
    \A r \in InFindJobs :
        LET loc == req[r].loc
            called == \E n \in 1..Len(req[r].log) : req[r].log[n].call = "jsearch"
            blank == \A i \in 1..Len(loc.query) : loc.query[i] \in {Undef, "", Blank}
            n == IF Len(loc.data) < 7 THEN Len(loc.data) ELSE 7
        IN /\ req[r].resp.status # 500
           /\ called <=> (loc.keyLoaded /\ ~blank)
           /\ req[r].pc = "done" =>
                LET jobs == req[r].resp.body.jobs
                IN /\ req[r].resp.status = 200
                   /\ Len(jobs) <= 7
                   /\ ~called => jobs = <<>>
                   /\ loc.data = <<>> => jobs = <<>>
                   /\ IF \E i \in 1..n : loc.data[i].employer_name = <<NotAString>>
                      THEN jobs = <<>>
                      ELSE /\ Len(jobs) = n
                           /\ \A i \in 1..n : jobs[i].job_id = loc.data[i].job_id

\* C18 witness: a reply with 8 jobs, answered with the records of the first 7.
C18_Witness ==
    \E r \in InFindJobs :
        /\ req[r].pc = "done" /\ Len(req[r].loc.data) = 8
        /\ Len(req[r].resp.body.jobs) = 7


\* C19: the employment_types a caller of GET /jobs supplies is a filter of the
\* job-search request findJobs makes.
C19_EmploymentTypesForwarded ==
    \A r \in InFindJobs :
        req[r].in.employment_types # Undef =>
            \A n \in 1..Len(req[r].log) :
                req[r].log[n].call = "jsearch" =>
                    /\ "employment_types" \in DOMAIN req[r].log[n].params
                    /\ req[r].log[n].params.employment_types = req[r].in.employment_types


(***************************************************************************)
(* Concurrent logo lookups: two GET /jobs requests, each with its own      *)
(* lookups under Promise.all, over a company_logos collection that may     *)
(* already hold an entry nobody guessed.                                   *)
(***************************************************************************)
CuratedLogo ==
    [key |-> <<"a", "c", "m", "e">>, url |-> <<"https://cdn.example/acme.svg">>,
     companyName |-> <<"A", "c", "m", "e">>]

InitLogos ==
    /\ req = [r \in Slots |-> IdleReq]
    /\ mod = ModuleInit("client", "client")
    /\ heap = [r \in Slots |-> <<>>]
    /\ savedJobs = [docs |-> {}, acked |-> {}]
    /\ userStats = [u \in Uids |-> [exists |-> FALSE, data |-> [none |-> TRUE]]]
    /\ companyLogos \in {[docs |-> d, writes |-> {}, dropped |-> {}] : d \in {{}, {CuratedLogo}}}
    /\ files = {}

\* Requests that name their query and reach the job-search API: the profile
\* read plays no part here.
JobsReceiveQuery(r) ==
    JobsReceive(r) /\ req'[r].pc = "awaitSearch"
                   /\ req'[r].in = [uid |-> Undef, q |-> "java jobs", employment_types |-> Undef]

\* Replies whose jobs have no logo and names that normalise to one key.
JobsSearchSameKey(r) ==
    /\ JobsSearch(r, MaxJobsAmongAll)
    /\ req'[r].loc.data # <<>>
    /\ \A i \in 1..Len(req'[r].loc.data) : req'[r].loc.data[i].employer_name \in {AcmeInc, AcmeLlc}

LogosNext ==
    \/ \E r \in Slots : JobsReceiveQuery(r) \/ JobsSearchSameKey(r)
    \/ \E r \in Slots, i \in 1..MaxJobsReturned : LogoGet(r, i)
    \/ LogoWriteSettle

SpecLogos == InitLogos /\ [][LogosNext]_vars

\* The lookups that returned, as <<request, position>>.
LookupsReturned ==
    UNION {{<<r, i>> : i \in {n \in 1..Len(req[r].loc.tasks) :
                                 req[r].loc.tasks[n].cache \in {"hit", "miss", "failed"}}} :
           r \in {q \in Slots : req[q].route = "/jobs" /\ "tasks" \in DOMAIN req[q].loc}}

KeyOf(l) == companyKey(req[l[1]].loc.tasks[l[2]].job.employer_name)

UrlOf(l) == req[l[1]].loc.tasks[l[2]].logoUrl

\* The lookups for one key that returned a URL all returned the same one.
SameUrlPerKey ==
    \A l1, l2 \in LookupsReturned :
        (KeyOf(l1) = KeyOf(l2) /\ UrlOf(l1) # NullLogo /\ UrlOf(l2) # NullLogo) =>
            UrlOf(l1) = UrlOf(l2)

\* A step leaves the url of every company_logos entry as it was.
UrlsKept ==
    \A d \in companyLogos.docs :
        \E e \in companyLogos'.docs : e.key = d.key /\ e.url = d.url

\* C20: concurrent logo lookups converge.  Of the getCompanyLogo calls (no API
\* logo) whose company names normalise to one key, all that return a URL
\* return the same URL, and the url of a company_logos entry never changes
\* once it is there, though several calls may miss the cache together and
\* each write the entry.
C20_LogoLookupsConverge == []SameUrlPerKey /\ [][UrlsKept]_vars

\* C20 witness: two lookups of different names with one key both missed, both
\* returned, and both writes reached the collection.
C20_Witness ==
    \E l1, l2 \in LookupsReturned :
        /\ KeyOf(l1) = KeyOf(l2)
        /\ req[l1[1]].loc.tasks[l1[2]].job.employer_name = AcmeInc
        /\ req[l2[1]].loc.tasks[l2[2]].job.employer_name = AcmeLlc
        /\ req[l1[1]].loc.tasks[l1[2]].cache = "miss"
        /\ req[l2[1]].loc.tasks[l2[2]].cache = "miss"
        /\ companyLogos.writes = {} /\ companyLogos.dropped = {}
        /\ \E d \in companyLogos.docs : d.key = KeyOf(l1) /\ d.url = UrlOf(l1)

\* ---------------------------------------------------------------------------
\* C21: the order of the steps of POST /analyze-resume.

ResumeRequests == {r \in Slots : req[r].route = "/analyze-resume"}

CallsAt(r, name) == {n \in 1..Len(req[r].log) : req[r].log[n].call = name}

RejectedUpload(r) == ~req[r].in.file \/ req[r].in.mimetype \notin allowedMimeTypes

\* The model call at position n follows an OCR call and the return of a text
\* of at least MinResumeChars characters once trimmed.
AfterLongEnoughText(r, n) ==
    \E m \in CallsAt(r, "docai.processDocument"), k \in CallsAt(r, "docai.returned") :
        /\ m < k
        /\ k < n
        /\ req[r].log[k].text.chars >= MinResumeChars

\* C21: a request to POST /analyze-resume without a file or with a MIME type
\* outside allowedMimeTypes is answered 400 with no OCR call and no model call;
\* every model call comes after the OCR call returned a text whose trimmed
\* length is at least 50; and a 200 response carries analysisResult and is
\* sent only after a model call that did not fail.
C21_ResumeStepsInOrder ==
    \A r \in ResumeRequests :
        /\ RejectedUpload(r) =>
              /\ req[r].pc = "done"
              /\ req[r].resp.status = 400
              /\ req[r].log = <<>>
        /\ \A n \in CallsAt(r, "model") : AfterLongEnoughText(r, n)
        /\ (req[r].pc = "done" /\ req[r].resp.status = 200) =>
              /\ CallsAt(r, "model") # {}
              /\ "model" \notin FailuresOf(r)
              /\ DOMAIN req[r].resp.body = {"analysisResult"}

\* A resume whose text has blanks around exactly MinResumeChars characters
\* was analysed and answered 200.
C21_Witness ==
    \E r \in ResumeRequests :
        /\ req[r].pc = "done"
        /\ req[r].resp.status = 200
        /\ \E k \in CallsAt(r, "docai.returned") :
              req[r].log[k].text = [chars |-> MinResumeChars, blanks |-> 2]
        /\ \E s \in ResumeRequests : RejectedUpload(s) /\ req[s].resp.status = 400

\* ---------------------------------------------------------------------------
\* C22: the 200 and 404 responses of GET /skills/analyze.

SkillsRequests == {r \in Slots : req[r].route = "/skills/analyze"}

\* The entries of the profile's skills, each lower-cased and trimmed.
LowerTrimmedSkills(uid) ==
    LET entries == split(Chars(Profiles[uid].skills))
    IN {LowerCased(trim(entries[i])) : i \in 1..Len(entries)} \ {<<>>}

NoJobRole(uid) ==
    uid \notin ProfileIds \/ ~Profiles[uid].exists \/ Falsy(Profiles[uid].jobRole)

Protocols == {<<"h", "t", "t", "p", ":", "/", "/">>, <<"h", "t", "t", "p", "s", ":", "/", "/">>}

\* C22: in every 200 response of GET /skills/analyze missingSkills is the list
\* of the entries of requiredSkills that are not among the user's lower-cased,
\* trimmed skills, in the same order; every key of learningResources is an
\* entry of missingSkills and every value starts with http:// or https://; and
\* a request for a profile that is absent or has no jobRole makes no model
\* call and is answered 404.
C22_SkillsResponse ==
    \A r \in SkillsRequests :
        /\ (req[r].pc = "done" /\ req[r].resp.status = 200) =>
              LET body == req[r].resp.body
              IN /\ body.missingSkills =
                      SelectSeq(body.requiredSkills,
                                LAMBDA skill : skill \notin LowerTrimmedSkills(req[r].in.uid))
                 /\ \A n \in 1..Len(body.learningResources) :
                      /\ body.learningResources[n].skill \in Range(body.missingSkills)
                      /\ \E protocol \in Protocols :
                            startsWith(body.learningResources[n].url, protocol)
        /\ (~Falsy(req[r].in.uid) /\ NoJobRole(req[r].in.uid)) =>
              /\ CallsAt(r, "model") = {}
              /\ req[r].pc = "done" => req[r].resp.status = 404

\* A 200 response whose missingSkills leaves out a skill the profile spells
\* with capitals and holds a resource that was replied without a protocol.
C22_Witness ==
    \E r \in SkillsRequests :
        /\ req[r].pc = "done"
        /\ req[r].resp.status = 200
        /\ Len(req[r].resp.body.missingSkills) < Len(req[r].resp.body.requiredSkills)
        /\ \E n \in 1..Len(req[r].resp.body.learningResources) :
              req[r].resp.body.learningResources[n].url =
                  <<"h", "t", "t", "p", "s", ":", "/", "/", "a", ".", "i", "o", "/", "x">>

\* A request for the profile without jobRole was answered 404.
C22_WitnessNoJobRole ==
    \E r \in SkillsRequests :
        req[r].pc = "done" /\ req[r].in.uid = "u3" /\ req[r].resp.status = 404

\* ---------------------------------------------------------------------------
\* C23: saving and unsaving a job by key.

DocsAt(docs, path) == {d \in docs : d.path = path}

\* Request r is answered with `status` in this step, after its Firestore call.
StoreAnswers(r, route, status) ==
    /\ req[r].route = route
    /\ req[r].pc = "awaitStore"
    /\ req'[r].pc = "done"
    /\ req'[r].resp.status = status

\* The job ids a GET response lists.
ListedJobIds(rs) == {rs.body.saved[n].job_id : n \in 1..Len(rs.body.saved)}

\* C23: a POST answered 201 leaves exactly one document under its uid and
\* job_id, holding the posted body, whatever was saved under that key before,
\* and leaves every other document as it was; a DELETE is answered 200
\* unless its Firestore call failed, whether or not the job was saved, leaves
\* no document under its key and every other document as it was; no other
\* step adds or changes a document; and a GET answered 200 lists no job that
\* has no document under its uid, so a GET that follows the DELETE does not
\* list the deleted job.
C23_SaveUnsaveIdempotent ==
    [][\A r \in Slots :
          LET path == SavedJobDoc(req[r].in.uid, req[r].in.jobId)
              posted == SavedJobDoc(req[r].in.uid, req[r].in.body.job_id)
              docs == savedJobs.docs
          IN /\ StoreAnswers(r, "POST /users/:uid/saved-jobs", 201) =>
                  /\ DocsAt(docs', posted) = {[path |-> posted, data |-> req[r].in.body]}
                  /\ docs' \ DocsAt(docs', posted) = docs \ DocsAt(docs, posted)
             /\ StoreAnswers(r, "DELETE /users/:uid/saved-jobs/:jobId", 200) =>
                  /\ DocsAt(docs', path) = {}
                  /\ docs' = docs \ DocsAt(docs, path)
             /\ (req[r].route = "DELETE /users/:uid/saved-jobs/:jobId"
                   /\ req[r].pc = "awaitStore" /\ req'[r].pc = "done") =>
                  \/ req'[r].resp.status = 200
                  \/ req'[r].resp.status = 500 /\ "saved_jobs.delete" \in
                        {req'[r].log[n].of : n \in CallsAt(r, "failure")'}
             /\ StoreAnswers(r, "GET /users/:uid/saved-jobs", 200) =>
                  \A n \in 1..Len(JobIds) :
                      DocsAt(docs, SavedJobDoc(req[r].in.uid, JobIds[n])) = {} =>
                          JobIds[n] \notin ListedJobIds(req'[r].resp)
             /\ (\A q \in Slots : ~StoreAnswers(q, "POST /users/:uid/saved-jobs", 201)) =>
                  docs' \subseteq docs
      ]_vars

\* Two POSTs of u1 with the same job_id and different bodies were both
\* answered 201, and one document is saved under that key.
C23_Witness ==
    /\ \A r \in Slots :
          /\ req[r].route = "POST /users/:uid/saved-jobs"
          /\ req[r].pc = "done"
          /\ req[r].resp.status = 201
          /\ req[r].in.uid = "u1"
          /\ req[r].in.body.job_id = "j1"
    /\ req["r1"].in.body # req["r2"].in.body
    /\ Cardinality(DocsAt(savedJobs.docs, SavedJobDoc("u1", "j1"))) = 1

\* The DELETE of a job that is not saved was answered 200 while another job
\* of the same user stays saved.
C23_WitnessUnsaved ==
    \E r \in Slots :
        /\ req[r].route = "DELETE /users/:uid/saved-jobs/:jobId"
        /\ req[r].pc = "done"
        /\ req[r].resp.status = 200
        /\ req[r].in.uid = "u1"
        /\ req[r].in.jobId = "j2"
        /\ savedJobs.acked = {[uid |-> "u1", job_id |-> "j1",
                               data |-> [job_id |-> "j1", title |-> "Backend Developer"]]}
        /\ savedJobs.docs = {[path |-> SavedJobDoc("u1", "j1"),
                              data |-> [job_id |-> "j1", title |-> "Backend Developer"]]}

====
